---- MODULE Spec2Model ----
(***************************************************************************)
(* Bounding-box layout engine of coinmeme: the geometry utilities and the  *)
(* overlap resolver of src/fix_bounding_boxes.py and the text fitter of    *)
(* src/app.py.                                                             *)
(*                                                                         *)
(* Numbers.  The program computes on IEEE doubles; the model computes on   *)
(* fixed-point integers, one unit being 1/Scale of the image frame, and    *)
(* rounds every quotient, product and square root to the nearest unit.     *)
(* Sums, differences, comparisons, min and max are exact.                  *)
(***************************************************************************)
EXTENDS Integers, Sequences, FiniteSets, TLC

\* ------------------------------------------------------------- numbers

\* The 5% padding of fix_overlapping_boxes, 0.05, in model units.
Padding == 500

\* 1.0 in model units (0.05 = 1/20).
Scale == 20 * Padding

\* max_iterations of fix_overlapping_boxes.
max_iterations == 20

\* a / b for b > 0, rounded to the nearest unit.
Div(a, b) == (2 * a + b) \div (2 * b)

\* a * b of two fixed-point numbers.
Mul(a, b) == Div(a * b, Scale)

Min(a, b) == IF a <= b THEN a ELSE b

Max(a, b) == IF a >= b THEN a ELSE b

RECURSIVE SqrtFloor(_, _, _)
SqrtFloor(n, lo, hi) ==
    IF lo >= hi THEN lo
    ELSE LET mid == (lo + hi + 1) \div 2
         IN  IF mid * mid <= n THEN SqrtFloor(n, mid, hi)
             ELSE SqrtFloor(n, lo, mid - 1)

\* math.sqrt(dx*dx + dy*dy) of two fixed-point numbers, to the nearest unit.
Hypot(dx, dy) ==
    LET n == dx * dx + dy * dy
        r == SqrtFloor(n, 0, 4 * Scale)
    IN  IF n - r * r > r THEN r + 1 ELSE r

\* ------------------------------------------------------------- geometry

\* A box record: (x, y) is the center.
Box(x, y, w, h) == [x |-> x, y |-> y, width |-> w, height |-> h]

Left(b) == b.x - Div(b.width, 2)

Right(b) == b.x + Div(b.width, 2)

Top(b) == b.y - Div(b.height, 2)

Bottom(b) == b.y + Div(b.height, 2)

\* A plausible slip in boxes_overlap: strict comparisons, so that boxes that
\* only touch are reported as overlapping.
boxes_overlap_strict(box1, box2) ==
    ~ (   Right(box1) < Left(box2) \/ Right(box2) < Left(box1)
       \/ Bottom(box1) < Top(box2) \/ Bottom(box2) < Top(box1))

\* A plausible slip: the vertical spans left out of the test.
boxes_overlap_horizontal(box1, box2) ==
    ~ (Right(box1) <= Left(box2) \/ Right(box2) <= Left(box1))

boxes_overlap(box1, box2) ==
    ~ (   Right(box1) <= Left(box2) \/ Right(box2) <= Left(box1)
       \/ Bottom(box1) <= Top(box2) \/ Bottom(box2) <= Top(box1))

\* A plausible slip: the early return of get_overlap_area left out.
get_overlap_area_unguarded(box1, box2) ==
    Mul(Min(Right(box1), Right(box2)) - Max(Left(box1), Left(box2)),
        Min(Bottom(box1), Bottom(box2)) - Max(Top(box1), Top(box2)))

get_overlap_area(box1, box2) ==
    IF ~ boxes_overlap(box1, box2) THEN 0
    ELSE LET overlap_width ==
                 Min(Right(box1), Right(box2)) - Max(Left(box1), Left(box2))
             overlap_height ==
                 Min(Bottom(box1), Bottom(box2)) - Max(Top(box1), Top(box2))
         IN  Mul(overlap_width, overlap_height)

\* ------------------------------------------------------------- inputs

\* Largest number of boxes in a mapping handed to the resolver.
MaxBoxes == 3

\* Number of resolver calls made in one behaviour.
MaxCalls == 2

\* The boxes the input mappings are built from.
BoxPool ==
    { Box(5000, 5000, 4000, 2000),    \* wide, centred
      Box(8000, 5000, 2000, 2000),    \* touches the first on its right edge
      Box(1000, 1000, 4000, 1000),    \* sticks out of the frame on the left
      Box(5000, 4000, 1000, 6000),    \* tall and narrow
      Box(5000, 6000, 1000, 6000),    \* tall and narrow, 0.2 lower
      Box(3000, 4000, 4000, 2000),    \* diagonal neighbour of the first
      Box(5000, 5000, 10000, 10000),  \* the whole frame
      Box(5000, 5000, 6000, 2000) }   \* wide, centred, wider than 0.475

\* The boxes the mappings of three and more boxes are built from.
CrowdPool ==
    { Box(5000, 5000, 4000, 2000),
      Box(1000, 1000, 4000, 1000),
      Box(5000, 4000, 1000, 6000),
      Box(3000, 4000, 4000, 2000) }

\* The values of the input mappings, in key order: every mapping of up to
\* two boxes of BoxPool, and every mapping of 3 .. MaxBoxes boxes of
\* CrowdPool.
Inputs ==
    UNION { [1..n -> BoxPool] : n \in 0..2 }
      \cup UNION { [1..n -> CrowdPool] : n \in 3..MaxBoxes }

\* The per-process string hash seed; dict key order does not depend on it.
Seeds == {0, 1}

\* ------------------------------------------------------------- state

VARIABLES
    \* fix_overlapping_boxes and its caller
    heap,            \* the box records: reference -> box
    bounding_boxes,  \* the caller's mapping: references in key order
    fixed_boxes,     \* the resolver's copy of the mapping (same references)
    box_names,       \* list(fixed_boxes.keys()): positions in key order
    overlaps_found,
    iteration,
    i,
    j,
    pc,              \* "idle", "while", "pair", "done", "error"
    result,          \* the mapping returned by the last call
    calls,           \* calls started so far
    orig,            \* the values of the first input, in key order
    input,           \* the values of the mapping when the current call began
    trace,           \* the pairs visited by the current call, in order
    history,         \* the completed calls: number, input, output, trace, passes
    original_boxes,  \* main's snapshot of the mapping, taken before the call
    changed,         \* main found a box of the snapshot moved by the call
    \* boxes_overlap and get_overlap_area called on two boxes
    g_box1,
    g_box2,
    g_pc,            \* "idle", "overlap", "area"
    g_overlap,       \* boxes_overlap(box1, box2)
    g_area,          \* get_overlap_area(box1, box2)
    g_area_swapped,  \* get_overlap_area(box2, box1)
    \* fit_text_to_bbox
    text,            \* the caption: its words in order
    font,            \* the caller's font, or NoFont
    bbox_width,
    bbox_height,
    arial,           \* whether /System/Library/Fonts/Arial.ttf can be loaded
    f_pc,            \* "idle", "loop", "done"
    size_index,      \* position of the for loop in font_sizes
    test_font,
    text_width,
    text_height,
    wrapped,         \* the last result of wrap_text: its lines
    wrap_font,       \* the font that wrap was measured with
    fitted,          \* the returned (text, font)
    f_ret,           \* which return was taken
    \* analyze_meme_boxes and check_box_bounds on one template
    meme_data,       \* the template: its name and its boxes in key order
    a_orig,          \* the template as it was before the first audit
    a_pc,            \* "idle", "analyzed", "done"
    a_run,           \* 1 in the first audit, 2 in the second
    analysis,        \* what analyze_meme_boxes returned, per audit
    bounds_issues,   \* what check_box_bounds returned for each box, per audit
    \* the files, save_new_template and the scripts that read the log
    memedb,               \* memedb.jsonl: its lines
    images,               \* meme_templates/: the names that have a .jpg
    memedb_fixed,         \* memedb_fixed.jsonl
    memedb_ai_generated,  \* memedb_ai_generated.jsonl
    new_template,    \* the template of the session, NoTemplate if none
    s_original,      \* the name the template came with
    template_name,
    s_pc,            \* save_new_template: "idle", "named", "imaged"
    s_ret,           \* what the last save returned: "none", "true", "false"
    saves,           \* saves started so far
    log0,            \* memedb.jsonl when the last save began
    templates,       \* returned by load_meme_templates
    all_issues,      \* check_bounds.main
    checked,         \* the records check_bounds.main went through
    memes,           \* fix_bounding_boxes.main
    issues_found,
    scanned,         \* the scans that have run
    t_result,        \* test_template_images: "none", "true", "false"
    \* get_text_positions and create_template_with_boxes on one template
    r_template,      \* the template: its name and its boxes in key order
    img_size,        \* the size of the template image: << width, height >>
    r_exists,        \* meme_templates/<name>.jpg exists
    r_arial,         \* Arial.ttf can be loaded
    positions,       \* get_text_positions(template, width, height)
    drawn,           \* what create_template_with_boxes drew for each box
    rendered,        \* the render functions that have run
    \* two sessions of the app in save_new_template at the same time
    session          \* session -> its template, its position, its result
                     \* and, as history, how many records it read

resolverVars ==
    << heap, bounding_boxes, fixed_boxes, box_names, overlaps_found,
       iteration, i, j, pc, result, calls, orig, input, trace, history,
       original_boxes, changed >>

geomVars == << g_box1, g_box2, g_pc, g_overlap, g_area, g_area_swapped >>

fitVars ==
    << text, font, bbox_width, bbox_height, arial, f_pc, size_index,
       test_font, text_width, text_height, wrapped, wrap_font, fitted, f_ret >>

auditVars == << meme_data, a_orig, a_pc, a_run, analysis, bounds_issues >>

storeVars ==
    << memedb, images, memedb_fixed, memedb_ai_generated, new_template,
       s_original, template_name, s_pc, s_ret, saves, log0, templates,
       all_issues, checked, memes, issues_found, scanned, t_result >>

renderVars ==
    << r_template, img_size, r_exists, r_arial, positions, drawn, rendered >>

raceVars == << session >>

vars ==
    << resolverVars, geomVars, fitVars, auditVars, storeVars, renderVars,
       raceVars >>

\* The values of a mapping (a sequence of references), in key order.
Values(m, h) == [k \in 1..Len(m) |-> h[m[k]]]

\* ------------------------------------------------------------- geometry calls

\* The boxes the geometry functions are called on: edges and corners that
\* touch, spans that nest, odd widths.
GeomBoxes ==
    { Box(x, y, w, h) : x \in {2000, 5000, 6000}, y \in {2000, 4000},
                        w \in {2000, 4000, 4001}, h \in {2000, 3000} }

GeomIdle ==
    /\ g_box1 = Box(0, 0, 0, 0)
    /\ g_box2 = Box(0, 0, 0, 0)
    /\ g_pc = "done"
    /\ g_overlap = FALSE
    /\ g_area = 0
    /\ g_area_swapped = 0

GeomInit ==
    /\ g_box1 \in GeomBoxes
    /\ g_box2 \in GeomBoxes
    /\ g_pc = "idle"
    /\ g_overlap = FALSE
    /\ g_area = 0
    /\ g_area_swapped = 0

\* boxes_overlap(box1, box2).
CallBoxesOverlap ==
    /\ g_pc = "idle"
    /\ g_overlap' = boxes_overlap(g_box1, g_box2)
    /\ g_pc' = "overlap"
    /\ UNCHANGED << g_box1, g_box2, g_area, g_area_swapped >>
    /\ UNCHANGED << resolverVars, fitVars, auditVars, storeVars >>
    /\ UNCHANGED << renderVars, raceVars >>

\* get_overlap_area(box1, box2) and get_overlap_area(box2, box1).
CallGetOverlapArea ==
    /\ g_pc = "overlap"
    /\ g_area' = get_overlap_area(g_box1, g_box2)
    /\ g_area_swapped' = get_overlap_area(g_box2, g_box1)
    /\ g_pc' = "area"
    /\ UNCHANGED << g_box1, g_box2, g_overlap >>
    /\ UNCHANGED << resolverVars, fitVars, auditVars, storeVars >>
    /\ UNCHANGED << renderVars, raceVars >>

\* ------------------------------------------------------------- text fitter

\* Longest caption, in words.
MaxWords == 3

\* A word is its number of characters.
Words == {2, 5, 12}

Texts == UNION { [1..n -> Words] : n \in 0..MaxWords }

BoxWidths == {0, 60, 150}

BoxHeights == {0, 20, 50}

NoFont == [face |-> "none", size |-> 0]

Arial(size) == [face |-> "arial", size |-> size]

\* ImageFont.load_default().
DefaultFont == [face |-> "default", size |-> 10]

\* The fonts create_meme_image hands over: Arial faces where Arial loads,
\* else the default font, or none when that fails too.
CallerFonts(hasArial) ==
    IF hasArial THEN {Arial(18), Arial(24)} ELSE {DefaultFont, NoFont}

\* Characters of a line: its words joined by single spaces.
RECURSIVE Chars(_)
Chars(line) ==
    IF line = << >> THEN 0
    ELSE IF Len(line) = 1 THEN line[1]
    ELSE line[1] + 1 + Chars(Tail(line))

\* Width of textbbox((0, 0), line, font): a fixed advance per character,
\* 0.5 em in Arial and 0.6 em in the default font.
TextWidth(line, f) ==
    (Chars(line) * f.size * (IF f.face = "arial" THEN 5 ELSE 6)) \div 10

\* Height of textbbox((0, 0), line, font): one em, and 0 for no text.
TextHeight(line, f) == IF line = << >> THEN 0 ELSE f.size

\* A string as its lines: the unwrapped text is one line, '' has none.
Str(words) == IF words = << >> THEN << >> ELSE << words >>

\* A plausible slip: the candidate sizes listed smallest first.
font_sizes_ascending == << 10, 12, 14, 16, 18, 20, 24 >>

font_sizes == << 24, 20, 18, 16, 14, 12, 10 >>

\* ImageFont.truetype(Arial, size), and the caller's font when that raises.
TestFont(size, f, hasArial) == IF hasArial THEN Arial(size) ELSE f

\* A plausible slip: the width test made on the new word alone.
TestLineWordOnly(current_line, word) == << word >>

\* ' '.join(current_line + [word]).
TestLine(current_line, word) == Append(current_line, word)

\* The for loop of wrap_text from word k on.
RECURSIVE WrapLoop(_, _, _, _, _, _)
WrapLoop(words, k, lines, current_line, f, max_width) ==
    IF k > Len(words)
    THEN IF current_line # << >> THEN Append(lines, current_line) ELSE lines
    ELSE IF TextWidth(TestLine(current_line, words[k]), f) <= max_width
    THEN WrapLoop(words, k + 1, lines, Append(current_line, words[k]),
                  f, max_width)
    ELSE IF current_line # << >>
    THEN WrapLoop(words, k + 1, Append(lines, current_line),
                  << words[k] >>, f, max_width)
    ELSE WrapLoop(words, k + 1, Append(lines, << words[k] >>), << >>,
                  f, max_width)

\* A plausible slip: a word wider than the box left out, not put on a line
\* of its own.
wrap_text_dropping(words, f, max_width) ==
    IF f = NoFont THEN Str(words)
    ELSE WrapLoop(SelectSeq(words,
                            LAMBDA w : TextWidth(<< w >>, f) <= max_width),
                  1, << >>, << >>, f, max_width)

wrap_text(words, f, max_width) ==
    IF f = NoFont THEN Str(words)
    ELSE WrapLoop(words, 1, << >>, << >>, f, max_width)

\* len(wrapped.split('\n')): ''.split('\n') is [''].
LineCount(w) == IF w = << >> THEN 1 ELSE Len(w)

FitIdle ==
    /\ text = << >>
    /\ font = NoFont
    /\ bbox_width = 0
    /\ bbox_height = 0
    /\ arial = FALSE
    /\ f_pc = "done"
    /\ size_index = 0
    /\ test_font = NoFont
    /\ text_width = 0
    /\ text_height = 0
    /\ wrapped = << >>
    /\ wrap_font = NoFont
    /\ fitted = [text |-> << >>, font |-> NoFont]
    /\ f_ret = "none"

FitInit ==
    /\ text \in Texts
    /\ arial \in BOOLEAN
    /\ font \in CallerFonts(arial)
    /\ bbox_width \in BoxWidths
    /\ bbox_height \in BoxHeights
    /\ f_pc = "idle"
    /\ size_index = 0
    /\ test_font = NoFont
    /\ text_width = 0
    /\ text_height = 0
    /\ wrapped = << >>
    /\ wrap_font = NoFont
    /\ fitted = [text |-> << >>, font |-> NoFont]
    /\ f_ret = "none"

\* The call: without a font the text is returned as it is.
FitCall ==
    /\ f_pc = "idle"
    /\ IF font = NoFont
       THEN /\ fitted' = [text |-> Str(text), font |-> font]
            /\ f_ret' = "nofont"
            /\ f_pc' = "done"
            /\ UNCHANGED size_index
       ELSE /\ size_index' = 1
            /\ f_pc' = "loop"
            /\ UNCHANGED << fitted, f_ret >>
    /\ UNCHANGED << text, font, bbox_width, bbox_height, arial, test_font,
                    text_width, text_height, wrapped, wrap_font >>
    /\ UNCHANGED << resolverVars, geomVars, auditVars, storeVars >>
    /\ UNCHANGED << renderVars, raceVars >>

\* The font and the single-line measurement of the current candidate.
Candidate ==
    LET f == TestFont(font_sizes[size_index], font, arial)
    IN  [font |-> f, width |-> TextWidth(text, f),
         height |-> TextHeight(text, f),
         wrapped |-> wrap_text(text, f, bbox_width)]

\* A candidate at which the text fits on a single line: return it unwrapped.
FitSingleLine ==
    /\ f_pc = "loop"
    /\ size_index <= Len(font_sizes)
    /\ Candidate.width <= bbox_width
    /\ Candidate.height <= bbox_height
    /\ test_font' = Candidate.font
    /\ text_width' = Candidate.width
    /\ text_height' = Candidate.height
    /\ fitted' = [text |-> Str(text), font |-> Candidate.font]
    /\ f_ret' = "single"
    /\ f_pc' = "done"
    /\ UNCHANGED << text, font, bbox_width, bbox_height, arial, size_index,
                    wrapped, wrap_font >>
    /\ UNCHANGED << resolverVars, geomVars, auditVars, storeVars >>
    /\ UNCHANGED << renderVars, raceVars >>

\* A candidate at which the wrapped text is low enough: return it wrapped.
FitWrapped ==
    /\ f_pc = "loop"
    /\ size_index <= Len(font_sizes)
    /\ ~ (Candidate.width <= bbox_width /\ Candidate.height <= bbox_height)
    /\ LineCount(Candidate.wrapped) * Candidate.height <= bbox_height
    /\ test_font' = Candidate.font
    /\ text_width' = Candidate.width
    /\ text_height' = Candidate.height
    /\ wrapped' = Candidate.wrapped
    /\ wrap_font' = Candidate.font
    /\ fitted' = [text |-> Candidate.wrapped, font |-> Candidate.font]
    /\ f_ret' = "wrapped"
    /\ f_pc' = "done"
    /\ UNCHANGED << text, font, bbox_width, bbox_height, arial, size_index >>
    /\ UNCHANGED << resolverVars, geomVars, auditVars, storeVars >>
    /\ UNCHANGED << renderVars, raceVars >>

\* A plausible slip: the same size tried again.
NextSizeRetry(k) == k

\* The for loop's step: the size after font_sizes[k].
NextSize(k) == k + 1

\* A candidate that passes neither test: on to the next size.
FitNextSize ==
    /\ f_pc = "loop"
    /\ size_index <= Len(font_sizes)
    /\ ~ (Candidate.width <= bbox_width /\ Candidate.height <= bbox_height)
    /\ ~ (LineCount(Candidate.wrapped) * Candidate.height <= bbox_height)
    /\ test_font' = Candidate.font
    /\ text_width' = Candidate.width
    /\ text_height' = Candidate.height
    /\ wrapped' = Candidate.wrapped
    /\ wrap_font' = Candidate.font
    /\ size_index' = NextSize(size_index)
    /\ UNCHANGED << text, font, bbox_width, bbox_height, arial, f_pc,
                    fitted, f_ret >>
    /\ UNCHANGED << resolverVars, geomVars, auditVars, storeVars >>
    /\ UNCHANGED << renderVars, raceVars >>

\* The loop ran out of sizes: the wrap at the caller's font.
FitFallback ==
    /\ f_pc = "loop"
    /\ size_index > Len(font_sizes)
    /\ wrapped' = wrap_text(text, font, bbox_width)
    /\ wrap_font' = font
    /\ fitted' = [text |-> wrap_text(text, font, bbox_width), font |-> font]
    /\ f_ret' = "fallback"
    /\ f_pc' = "done"
    /\ UNCHANGED << text, font, bbox_width, bbox_height, arial, size_index,
                    test_font, text_width, text_height >>
    /\ UNCHANGED << resolverVars, geomVars, auditVars, storeVars >>
    /\ UNCHANGED << renderVars, raceVars >>

\* ------------------------------------------------------------- resolver

\* A plausible slip: the keys taken from an unordered set, whose iteration
\* order follows the string hash seed.
KeysOfSet(m, seed) ==
    IF seed = 0 THEN [k \in 1..Len(m) |-> k]
    ELSE [k \in 1..Len(m) |-> Len(m) + 1 - k]

\* list(fixed_boxes.keys()): insertion order, whatever the hash seed.
Keys(m, seed) == [k \in 1..Len(m) |-> k]

\* A plausible slip: the pass cap forgotten in the loop condition.
LoopContinuesUncapped(found, iter) == found

\* A plausible slip: the cap compared one pass early.
LoopContinuesOneShort(found, iter) == found /\ iter < max_iterations - 1

\* The while condition.
LoopContinues(found, iter) == found /\ iter < max_iterations

\* A plausible slip: the flag reset for every pair, not once per pass.
FlagResetPerPair(found) == FALSE

\* overlaps_found after a pair that does not overlap: left as it is.
FlagAfterSkip(found) == found

\* The center-to-center vector and its length after the d == 0 tie-break.
Direction(box1, box2) ==
    LET dx == box2.x - box1.x
        dy == box2.y - box1.y
        distance == Hypot(dx, dy)
    IN  IF distance = 0
        THEN [dx |-> Scale, dy |-> 0, distance |-> Scale]
        ELSE [dx |-> dx, dy |-> dy, distance |-> distance]

min_separation(box1, box2) == Div(box1.width + box2.width, 2) + Padding

\* A plausible slip: the whole gap given to each box, not half of it.
move_distance_unhalved(box1, box2) ==
    min_separation(box1, box2) - Direction(box1, box2).distance

move_distance(box1, box2) ==
    Div(min_separation(box1, box2) - Direction(box1, box2).distance, 2)

\* The two boxes after the push, before the clamp.
Pushed(box1, box2) ==
    LET d == Direction(box1, box2)
        dx == Div(d.dx * Scale, d.distance)
        dy == Div(d.dy * Scale, d.distance)
        m == move_distance(box1, box2)
    IN  << [box1 EXCEPT !.x = @ - Mul(dx, m), !.y = @ - Mul(dy, m)],
           [box2 EXCEPT !.x = @ + Mul(dx, m), !.y = @ + Mul(dy, m)] >>

\* Keep the center within bounds considering the box dimensions.
Clamp(box) ==
    LET min_x == Div(box.width, 2)
        max_x == Scale - Div(box.width, 2)
        min_y == Div(box.height, 2)
        max_y == Scale - Div(box.height, 2)
    IN  [box EXCEPT !.x = Max(min_x, Min(max_x, box.x)),
                    !.y = Max(min_y, Min(max_y, box.y))]

\* The pair after (i, j) in the two nested range loops; <<0, 0>> at the end.
NextPair(a, b, n) ==
    IF b < n THEN <<a, b + 1>>
    ELSE IF a + 1 < n THEN <<a + 1, a + 2>>
    ELSE <<0, 0>>

\* A plausible slip: a deep copy, which also copies the box records: the
\* copy refers to new records holding the values of the old ones.
deepcopy(m, h) ==
    [ mapping |-> [k \in 1..Len(m) |-> Len(h) + k],
      heap |-> h \o [k \in 1..Len(m) |-> h[m[k]]] ]

\* dict.copy(): a new mapping with the same keys, each referring to the
\* same box record as in m; no record is created.
copy(m, h) == [ mapping |-> [k \in 1..Len(m) |-> m[k]], heap |-> h ]

\* main's report: some box of the snapshot is more than 0.001 away, in x or
\* in y, from the box the resolver returned under the same key.
Changed(snapshot, fixed, h) ==
    \E k \in 1..Len(snapshot) :
        LET orig_box == h[snapshot[k]]
            fixed_box == h[fixed[k]]
        IN  \/ orig_box.x - fixed_box.x > Scale \div 1000
            \/ fixed_box.x - orig_box.x > Scale \div 1000
            \/ orig_box.y - fixed_box.y > Scale \div 1000
            \/ fixed_box.y - orig_box.y > Scale \div 1000

\* The call, as main makes it: the snapshot is taken, then fewer than two
\* boxes return at once, else the mapping is copied and the loop is set up.
\* The argument is a fresh mapping equal to the first input, or the mapping
\* the previous call returned.
Call ==
    /\ pc \in {"idle", "done"}
    /\ calls < MaxCalls
    /\ \E fresh \in BOOLEAN, seed \in Seeds :
          LET snapshot == copy(bounding_boxes, IF fresh THEN orig ELSE heap)
              copied == copy(bounding_boxes, snapshot.heap)
          IN
          /\ fresh \/ pc = "done"
          /\ original_boxes' = snapshot.mapping
          /\ input' = Values(bounding_boxes, snapshot.heap)
          /\ IF Len(bounding_boxes) <= 1
             THEN /\ pc' = "done"
                  /\ heap' = snapshot.heap
                  /\ result' = bounding_boxes
                  /\ changed' = Changed(original_boxes', result', heap')
                  /\ history' = history \cup
                        { [call |-> calls + 1, input |-> input',
                           output |-> input', trace |-> << >>,
                           passes |-> 0] }
                  /\ UNCHANGED << fixed_boxes, box_names, overlaps_found >>
             ELSE /\ pc' = "while"
                  /\ heap' = copied.heap
                  /\ fixed_boxes' = copied.mapping
                  /\ box_names' = Keys(bounding_boxes, seed)
                  /\ overlaps_found' = TRUE
                  /\ changed' = FALSE
                  /\ UNCHANGED << result, history >>
    /\ calls' = calls + 1
    /\ iteration' = 0
    /\ i' = 0
    /\ j' = 0
    /\ trace' = << >>
    /\ UNCHANGED << bounding_boxes, orig >>
    /\ UNCHANGED << geomVars, fitVars, auditVars, storeVars >>
    /\ UNCHANGED << renderVars, raceVars >>

\* The while test passes: a new pass over the pairs begins.
BeginPass ==
    /\ pc = "while"
    /\ LoopContinues(overlaps_found, iteration)
    /\ overlaps_found' = FALSE
    /\ iteration' = iteration + 1
    /\ i' = 1
    /\ j' = 2
    /\ pc' = "pair"
    /\ UNCHANGED << heap, bounding_boxes, fixed_boxes, box_names, result,
                    calls, orig, input, trace, history, original_boxes,
                    changed >>
    /\ UNCHANGED << geomVars, fitVars, auditVars, storeVars >>
    /\ UNCHANGED << renderVars, raceVars >>

\* The while test fails: return fixed_boxes; main compares the snapshot
\* with the returned mapping.
Return ==
    /\ pc = "while"
    /\ ~ LoopContinues(overlaps_found, iteration)
    /\ pc' = "done"
    /\ result' = fixed_boxes
    /\ changed' = Changed(original_boxes, fixed_boxes, heap)
    /\ history' = history \cup
          { [call |-> calls, input |-> input,
             output |-> Values(fixed_boxes, heap), trace |-> trace,
             passes |-> iteration] }
    /\ UNCHANGED << heap, bounding_boxes, fixed_boxes, box_names,
                    overlaps_found, iteration, i, j, calls, orig, input,
                    trace, original_boxes >>
    /\ UNCHANGED << geomVars, fitVars, auditVars, storeVars >>
    /\ UNCHANGED << renderVars, raceVars >>

\* The loop variables after the pair (i, j).
Advance ==
    LET nxt == NextPair(i, j, Len(box_names))
    IN  /\ i' = nxt[1]
        /\ j' = nxt[2]
        /\ pc' = IF nxt[1] = 0 THEN "while" ELSE "pair"
        /\ trace' = Append(trace, << box_names[i], box_names[j] >>)

\* A plausible slip: the clamp placed after the if, so that it also runs
\* for a pair that does not overlap.
PairSkipClamping ==
    /\ pc = "pair"
    /\ LET r1 == fixed_boxes[box_names[i]]
           r2 == fixed_boxes[box_names[j]]
       IN  /\ ~ boxes_overlap(heap[r1], heap[r2])
           /\ heap' = [heap EXCEPT ![r1] = Clamp(heap[r1]),
                                   ![r2] = Clamp(heap[r2])]
    /\ overlaps_found' = FlagAfterSkip(overlaps_found)
    /\ Advance
    /\ UNCHANGED << bounding_boxes, fixed_boxes, box_names, iteration,
                    result, calls, orig, input, history, original_boxes,
                    changed >>
    /\ UNCHANGED << geomVars, fitVars, auditVars, storeVars >>
    /\ UNCHANGED << renderVars, raceVars >>

\* One pair that does not overlap: nothing moves.
PairSkip ==
    /\ pc = "pair"
    /\ ~ boxes_overlap(heap[fixed_boxes[box_names[i]]],
                       heap[fixed_boxes[box_names[j]]])
    /\ overlaps_found' = FlagAfterSkip(overlaps_found)
    /\ Advance
    /\ UNCHANGED << heap, bounding_boxes, fixed_boxes, box_names, iteration,
                    result, calls, orig, input, history, original_boxes,
                    changed >>
    /\ UNCHANGED << geomVars, fitVars, auditVars, storeVars >>
    /\ UNCHANGED << renderVars, raceVars >>

\* One overlapping pair: push the two boxes apart and clamp both.  Dividing
\* by a zero distance raises ZeroDivisionError.
PairSeparate ==
    /\ pc = "pair"
    /\ LET r1 == fixed_boxes[box_names[i]]
           r2 == fixed_boxes[box_names[j]]
       IN  /\ boxes_overlap(heap[r1], heap[r2])
           /\ overlaps_found' = TRUE
           /\ IF Direction(heap[r1], heap[r2]).distance = 0
              THEN /\ pc' = "error"
                   /\ UNCHANGED << heap, i, j, trace >>
              ELSE /\ LET p == Pushed(heap[r1], heap[r2])
                      IN  heap' = [heap EXCEPT ![r1] = Clamp(p[1]),
                                               ![r2] = Clamp(p[2])]
                   /\ Advance
    /\ UNCHANGED << bounding_boxes, fixed_boxes, box_names, iteration,
                    result, calls, orig, input, history, original_boxes,
                    changed >>
    /\ UNCHANGED << geomVars, fitVars, auditVars, storeVars >>
    /\ UNCHANGED << renderVars, raceVars >>

\* No resolver call in this behaviour.
ResolverIdle ==
    /\ orig = << >>
    /\ heap = << >>
    /\ bounding_boxes = << >>
    /\ fixed_boxes = << >>
    /\ box_names = << >>
    /\ overlaps_found = FALSE
    /\ iteration = 0
    /\ i = 0
    /\ j = 0
    /\ pc = "idle"
    /\ original_boxes = << >>
    /\ changed = FALSE
    /\ result = << >>
    /\ calls = MaxCalls
    /\ input = << >>
    /\ trace = << >>
    /\ history = {}

\* ------------------------------------------------------------- auditor

\* A value to three decimals, as round(v, 3) and '{v:.3f}' give it.
Round3(v) == Div(v, Scale \div 1000) * (Scale \div 1000)

\* check_box_bounds(box, box_name, meme_name): one issue for each edge that
\* lies outside the frame, with the edge's place to three decimals.
check_box_bounds(box, box_name, meme_name) ==
    LET Issue(edge, at) ==
            << [meme |-> meme_name, box |-> box_name, edge |-> edge,
                at |-> Round3(at)] >>
    IN  (IF Left(box) < 0 THEN Issue("left", Left(box)) ELSE << >>)
          \o (IF Right(box) > Scale THEN Issue("right", Right(box)) ELSE << >>)
          \o (IF Top(box) < 0 THEN Issue("top", Top(box)) ELSE << >>)
          \o (IF Bottom(box) > Scale THEN Issue("bottom", Bottom(box))
              ELSE << >>)

\* A plausible slip: the inner loop started at the first box.
JStartAll(a) == 1

\* range(i + 1, len(box_names)): where the inner loop starts.
JStart(a) == a + 1

\* The pairs the two nested loops of analyze_meme_boxes visit, from (a, b)
\* on, in order.
RECURSIVE PairLoop(_, _, _)
PairLoop(a, b, n) ==
    IF a > n THEN << >>
    ELSE IF b > n THEN PairLoop(a + 1, JStart(a + 1), n)
    ELSE << << a, b >> >> \o PairLoop(a, b + 1, n)

\* analyze_meme_boxes(meme_data).  A box is named by the position of its key
\* in the mapping.  Areas are held to four decimals, which is what
\* round(overlap_area, 4) keeps of them.
analyze_meme_boxes(meme) ==
    LET boxes == meme.bounding_boxes
        n == Len(boxes)
        hit == SelectSeq(PairLoop(1, JStart(1), n),
                         LAMBDA p : boxes_overlap(boxes[p[1]], boxes[p[2]]))
        overlaps == [k \in 1..Len(hit) |->
                       [boxes |-> hit[k],
                        overlap_area |->
                            get_overlap_area(boxes[hit[k][1]],
                                             boxes[hit[k][2]])]]
        outside == SelectSeq([k \in 1..n |-> k],
                             LAMBDA k :    Left(boxes[k]) < 0
                                        \/ Right(boxes[k]) > Scale
                                        \/ Top(boxes[k]) < 0
                                        \/ Bottom(boxes[k]) > Scale)
        issues == [k \in 1..Len(outside) |->
                     [box |-> outside[k],
                      text |-> "extends outside image bounds"]]
    IN  IF n = 0
        THEN [name |-> meme.name,
              issues |-> << [box |-> 0, text |-> "No bounding boxes defined"] >>,
              overlaps |-> << >>]
        ELSE [name |-> meme.name, issues |-> issues, overlaps |-> overlaps,
              total_overlaps |-> Len(overlaps)]

\* The boxes of the audited templates: inside the frame, on its edge,
\* outside over one edge, over two and over all four.
AuditPool ==
    { Box(5000, 5000, 4000, 2000),      \* inside
      Box(2000, 5000, 4000, 2000),      \* left edge at 0, overlaps the first
      Box(8000, 5000, 2000, 2000),      \* inside, touches the first
      Box(1000, 1000, 4000, 1000),      \* left edge at -0.1
      Box(9000, 9500, 4000, 2000),      \* right edge at 1.1, bottom at 1.05
      Box(5000, 5000, 12000, 12000) }   \* larger than the frame

AuditMemes ==
    { [name |-> << "m" >>, bounding_boxes |-> bs] :
        bs \in UNION { [1..n -> AuditPool] : n \in 0..MaxBoxes } }

AuditIdle ==
    /\ meme_data = [name |-> << >>, bounding_boxes |-> << >>]
    /\ a_orig = meme_data
    /\ a_pc = "done"
    /\ a_run = 0
    /\ analysis = << >>
    /\ bounds_issues = << >>

AuditInit ==
    /\ meme_data \in AuditMemes
    /\ a_orig = meme_data
    /\ a_pc = "idle"
    /\ a_run = 1
    /\ analysis = << >>
    /\ bounds_issues = << >>

\* A plausible slip: the audit repairing what it finds, each box clamped
\* into the frame in place.
CallAnalyzeClamping ==
    /\ a_pc = "idle"
    /\ analysis' = Append(analysis, analyze_meme_boxes(meme_data))
    /\ meme_data' =
          [meme_data EXCEPT !.bounding_boxes =
              [k \in 1..Len(@) |-> Clamp(@[k])]]
    /\ a_pc' = "analyzed"
    /\ UNCHANGED << a_orig, a_run, bounds_issues >>
    /\ UNCHANGED << resolverVars, geomVars, fitVars, storeVars >>
    /\ UNCHANGED << renderVars, raceVars >>

\* analysis = analyze_meme_boxes(meme_data): the template is only read.
CallAnalyze ==
    /\ a_pc = "idle"
    /\ analysis' = Append(analysis, analyze_meme_boxes(meme_data))
    /\ meme_data' = meme_data
    /\ a_pc' = "analyzed"
    /\ UNCHANGED << a_orig, a_run, bounds_issues >>
    /\ UNCHANGED << resolverVars, geomVars, fitVars, storeVars >>
    /\ UNCHANGED << renderVars, raceVars >>

\* check_box_bounds on each box of the template, as the loop of
\* check_bounds.main runs it; then the whole audit once more.
CallCheckBounds ==
    /\ a_pc = "analyzed"
    /\ bounds_issues' =
          Append(bounds_issues,
                 [k \in 1..Len(meme_data.bounding_boxes) |->
                    check_box_bounds(meme_data.bounding_boxes[k], k,
                                     meme_data.name)])
    /\ meme_data' = meme_data
    /\ a_run' = a_run + 1
    /\ a_pc' = IF a_run = 1 THEN "idle" ELSE "done"
    /\ UNCHANGED << a_orig, analysis >>
    /\ UNCHANGED << resolverVars, geomVars, fitVars, storeVars >>
    /\ UNCHANGED << renderVars, raceVars >>

\* ------------------------------------------------------------- template log

\* Number of save_new_template calls made in one behaviour.
MaxSaves == 2

\* A name is a string: the sequence of its characters (a decimal counter
\* counts as one character).  The names the vision service proposes:
\* 'a', 'A!' and 'a-1'.
RawNames == { << "a" >>, << "A", "!" >>, << "a", "-", "1" >> }

\* str.lower() on one character.
Lower(c) == IF c = "A" THEN "a" ELSE IF c = "B" THEN "b" ELSE c

\* One character through .lower() and the chain of .replace() calls.
CleanChar(c) ==
    IF Lower(c) \in {" ", "-"} THEN << "_" >>
    ELSE IF Lower(c) \in {"\"", "'", "!", "?", ":", ";", ",", "."} THEN << >>
    ELSE << Lower(c) >>

\* The cleaned template name.
RECURSIVE CleanName(_)
CleanName(s) ==
    IF s = << >> THEN << >> ELSE CleanChar(Head(s)) \o CleanName(Tail(s))

\* A line of memedb.jsonl that json.loads rejects.
BadLine ==
    [ok |-> FALSE, name |-> << >>, schema |-> 0, bounding_boxes |-> << >>,
     stages |-> << >>]

\* A line that holds a template record.  schema is the number of fields,
\* bounding_boxes the boxes in key order; stages is history and no part of
\* the JSON: the steps that produced the boxes.
Record(name, schema, boxes, stages) ==
    [ok |-> TRUE, name |-> name, schema |-> schema, bounding_boxes |-> boxes,
     stages |-> stages]

\* No template in the session.
NoTemplate == Record(<< >>, 0, << >>, << >>)

\* The records an initial log is made of: hand-written templates.
InitRecords ==
    { Record(<< "a" >>, 2,
             << Box(5000, 5000, 4000, 2000), Box(5000, 5200, 4000, 2000) >>,
             << "authored" >>),
      Record(<< "a", "_", "1" >>, 2,
             << Box(9000, 5000, 4000, 2000), Box(2000, 2000, 2000, 2000) >>,
             << "authored" >>),
      Record(<< "b" >>, 0, << >>, << "authored" >>) }

\* The record lines of a log, in order.
Records(log) == SelectSeq(log, LAMBDA l : l.ok)

\* The names of the records of a log are pairwise distinct.
DistinctNames(log) ==
    \A a, b \in 1..Len(log) :
        (a # b /\ log[a].ok /\ log[b].ok) => log[a].name # log[b].name

\* The logs a behaviour starts from: up to two lines, a line being a record
\* or malformed, the records' names pairwise distinct.
InitLogs ==
    { log \in UNION { [1..n -> InitRecords \cup {BadLine}] : n \in 0..2 } :
        DistinctNames(log) }

\* The for loop of load_meme_templates from line k on: json.loads raises on
\* a malformed line, the except clause around the whole loop reports it,
\* and the templates read so far are returned.
RECURSIVE LoadLoop(_, _, _)
LoadLoop(log, k, loaded) ==
    IF k > Len(log) THEN loaded
    ELSE IF ~ log[k].ok THEN loaded
    ELSE LoadLoop(log, k + 1, Append(loaded, log[k]))

load_meme_templates(log) == LoadLoop(log, 1, << >>)

\* The while loop of save_new_template that makes the name unique.
RECURSIVE UniqueName(_, _, _, _)
UniqueName(existing_templates, original_name, name, counter) ==
    IF \E k \in 1..Len(existing_templates) : existing_templates[k].name = name
    THEN UniqueName(existing_templates, original_name,
                    original_name \o << "_", ToString(counter) >>,
                    counter + 1)
    ELSE name

\* A plausible slip: memedb.jsonl opened with mode "w".
RewrittenLog(log, template) == << template >>

\* open("memedb.jsonl", "a") and one written line.
AppendedLog(log, template) == Append(log, template)

\* The body of fix_overlapping_boxes on the values of a mapping: the pairs
\* of one pass from (a, b) on.
RECURSIVE ResolvePairs(_, _, _, _)
ResolvePairs(bs, a, b, found) ==
    IF a = 0 THEN [boxes |-> bs, found |-> found]
    ELSE LET nxt == NextPair(a, b, Len(bs))
         IN  IF boxes_overlap(bs[a], bs[b])
             THEN LET p == Pushed(bs[a], bs[b])
                  IN  ResolvePairs([bs EXCEPT ![a] = Clamp(p[1]),
                                              ![b] = Clamp(p[2])],
                                   nxt[1], nxt[2], TRUE)
             ELSE ResolvePairs(bs, nxt[1], nxt[2], FlagAfterSkip(found))

\* The while loop of fix_overlapping_boxes.
RECURSIVE ResolvePasses(_, _, _)
ResolvePasses(bs, found, iter) ==
    IF LoopContinues(found, iter)
    THEN LET r == ResolvePairs(bs, 1, 2, FALSE)
         IN  ResolvePasses(r.boxes, r.found, iter + 1)
    ELSE bs

\* fix_overlapping_boxes as main calls it: the values of the returned
\* mapping.
fix_overlapping_boxes(bs) ==
    IF Len(bs) <= 1 THEN bs ELSE ResolvePasses(bs, TRUE, 0)

\* a in b, for strings.
IsSubstr(a, b) ==
    \E k \in 0..(Len(b) - Len(a)) : SubSeq(b, k + 1, k + Len(a)) = a

\* name.lower() of a whole string.
LowerName(s) == [k \in 1..Len(s) |-> Lower(s[k])]

\* image_file.stem.lower().replace("-", "_").replace(" ", "_").
ImageName(s) ==
    [k \in 1..Len(s) |->
        IF Lower(s[k]) \in {"-", " "} THEN "_" ELSE Lower(s[k])]

\* One box of the vision answer through the cleaning of
\* analyze_meme_with_openai: sizes limited, center clamped, three decimals.
CleanBox(b) ==
    LET width == Max(2000, Min(8000, b.width))
        height == Max(500, Min(2000, b.height))
        x == Max(Div(width, 2), Min(Scale - Div(width, 2), b.x))
        y == Max(Div(height, 2), Min(Scale - Div(height, 2), b.y))
        c == Box(x, y, width, height)
        w2 == Min(width, 6000)
        h2 == Min(height, 1500)
    IN  IF Left(c) < 0 \/ Right(c) > Scale \/ Top(c) < 0 \/ Bottom(c) > Scale
        THEN Box(Round3(Max(Div(w2, 2) + 500,
                            Min(Scale - Div(w2, 2) - 500, x))),
                 Round3(Max(Div(h2, 2) + 500,
                            Min(Scale - Div(h2, 2) - 500, y))),
                 Round3(w2), Round3(h2))
        ELSE Box(Round3(x), Round3(y), Round3(width), Round3(height))

\* The answers of the vision service for one template: none (the request
\* or the parse failed), boxes for its fields, two of them overlapping, or
\* two boxes apart from each other, one at the left edge and 0.4006 wide.
VisionAnswers ==
    { << >>,
      << Box(5000, 5000, 4004, 3000), Box(5000, 5200, 9000, 100),
         Box(1000, 1000, 3000, 1000) >>,
      << Box(100, 5000, 4006, 3000), Box(9000, 9000, 2000, 1000) >> }

\* analyze_meme_with_openai: the answer's boxes for the fields of the
\* schema, cleaned.
analyze_meme_with_openai(answer, schema) ==
    [k \in 1..Min(Len(answer), schema) |-> CleanBox(answer[k])]

\* The boxes analyze_image_for_meme_template returns: the service's JSON as
\* it is.
TemplateAnswers ==
    { << >>,
      << Box(5000, 5000, 4000, 2000), Box(5000, 5200, 4000, 2000) >> }

\* test_template_images: the loader raises on a malformed line; else every
\* record needs its image.
test_template_images(log, files) ==
    IF \E k \in 1..Len(log) : ~ log[k].ok THEN FALSE
    ELSE { k \in 1..Len(log) : log[k].name \notin files } = {}

\* The results of the scans, before any has run.
ScanFresh ==
    /\ templates = << >>
    /\ all_issues = << >>
    /\ checked = << >>
    /\ memes = << >>
    /\ issues_found = << >>
    /\ scanned = {}
    /\ t_result = "none"

StoreIdle ==
    /\ memedb = << >>
    /\ images = {}
    /\ memedb_fixed = << >>
    /\ memedb_ai_generated = << >>
    /\ new_template = NoTemplate
    /\ s_original = << >>
    /\ template_name = << >>
    /\ s_pc = "idle"
    /\ s_ret = "none"
    /\ saves = MaxSaves
    /\ log0 = << >>
    /\ ScanFresh

\* A log and the image of each of its records; no call yet.
StoreInit ==
    /\ memedb \in InitLogs
    /\ images = { memedb[k].name : k \in { n \in 1..Len(memedb) : memedb[n].ok } }
    /\ memedb_fixed = << >>
    /\ memedb_ai_generated = << >>
    /\ new_template = NoTemplate
    /\ s_original = << >>
    /\ template_name = << >>
    /\ s_pc = "idle"
    /\ s_ret = "none"
    /\ log0 = memedb
    /\ ScanFresh

\* app.main: analyze_image_for_meme_template gives the new template, named
\* and boxed by the vision service.
AnalyzeImage ==
    /\ s_pc = "idle"
    /\ saves < MaxSaves
    /\ \E n \in RawNames, b \in TemplateAnswers :
          new_template' = Record(n, 2, b, << "proposal" >>)
    /\ UNCHANGED << memedb, images, memedb_fixed, memedb_ai_generated,
                    s_original, template_name, s_pc, s_ret, saves, log0,
                    templates, all_issues, checked, memes, issues_found,
                    scanned, t_result >>
    /\ UNCHANGED << resolverVars, geomVars, fitVars, auditVars >>
    /\ UNCHANGED << renderVars, raceVars >>

\* save_new_template, lines 76-89: the name cleaned and made unique among
\* the templates load_meme_templates returns, and put into the template.
SaveCall ==
    /\ s_pc = "idle"
    /\ saves < MaxSaves
    /\ new_template # NoTemplate
    /\ s_original' = new_template.name
    /\ template_name' =
          UniqueName(load_meme_templates(memedb), CleanName(new_template.name),
                     CleanName(new_template.name), 1)
    /\ new_template' = [new_template EXCEPT !.name = template_name']
    /\ saves' = saves + 1
    /\ log0' = memedb
    /\ s_ret' = "none"
    /\ s_pc' = "named"
    /\ UNCHANGED << memedb, images, memedb_fixed, memedb_ai_generated,
                    templates, all_issues, checked, memes, issues_found,
                    scanned, t_result >>
    /\ UNCHANGED << resolverVars, geomVars, fitVars, auditVars >>
    /\ UNCHANGED << renderVars, raceVars >>

\* A plausible slip: a failed image.save passed over, the record appended
\* all the same.
SaveImageUnchecked ==
    /\ s_pc = "named"
    /\ \E written \in BOOLEAN :
          images' = IF written THEN images \cup {template_name} ELSE images
    /\ s_pc' = "imaged"
    /\ UNCHANGED << memedb, memedb_fixed, memedb_ai_generated, new_template,
                    s_original, template_name, s_ret, saves, log0,
                    templates, all_issues, checked, memes, issues_found,
                    scanned, t_result >>
    /\ UNCHANGED << resolverVars, geomVars, fitVars, auditVars >>
    /\ UNCHANGED << renderVars, raceVars >>

\* Lines 91-97: image.save under the final name; if it raises, the except
\* clause returns False.
SaveImage ==
    /\ s_pc = "named"
    /\ \E written \in BOOLEAN :
          IF written
          THEN /\ images' = images \cup {template_name}
               /\ s_pc' = "imaged"
               /\ UNCHANGED << s_ret, new_template >>
          ELSE /\ s_ret' = "false"
               /\ s_pc' = "idle"
               /\ new_template' = NoTemplate
               /\ UNCHANGED images
    /\ UNCHANGED << memedb, memedb_fixed, memedb_ai_generated,
                    s_original, template_name, saves, log0,
                    templates, all_issues, checked, memes, issues_found,
                    scanned, t_result >>
    /\ UNCHANGED << resolverVars, geomVars, fitVars, auditVars >>
    /\ UNCHANGED << renderVars, raceVars >>

\* Lines 99-108: the record appended to memedb.jsonl and True returned; if
\* the file cannot be opened, False.  The script is run anew afterwards.
SaveAppend ==
    /\ s_pc = "imaged"
    /\ \E opened \in BOOLEAN :
          IF opened
          THEN /\ memedb' = AppendedLog(memedb, new_template)
               /\ s_ret' = "true"
          ELSE /\ s_ret' = "false"
               /\ UNCHANGED memedb
    /\ s_pc' = "idle"
    /\ new_template' = NoTemplate
    /\ UNCHANGED << images, memedb_fixed, memedb_ai_generated,
                    s_original, template_name, saves, log0,
                    templates, all_issues, checked, memes, issues_found,
                    scanned, t_result >>
    /\ UNCHANGED << resolverVars, geomVars, fitVars, auditVars >>
    /\ UNCHANGED << renderVars, raceVars >>

\* templates = load_meme_templates().
LoadMemeTemplates ==
    /\ templates' = load_meme_templates(memedb)
    /\ scanned' = scanned \cup {"load_meme_templates"}
    /\ UNCHANGED << memedb, images, memedb_fixed, memedb_ai_generated,
                    new_template, s_original, template_name, s_pc, s_ret,
                    saves, log0, all_issues, checked, memes, issues_found,
                    t_result >>
    /\ UNCHANGED << resolverVars, geomVars, fitVars, auditVars >>
    /\ UNCHANGED << renderVars, raceVars >>

\* The issues check_box_bounds finds on the boxes of one template.
RECURSIVE BoxIssues(_, _)
BoxIssues(meme, k) ==
    IF k > Len(meme.bounding_boxes) THEN << >>
    ELSE check_box_bounds(meme.bounding_boxes[k], k, meme.name)
           \o BoxIssues(meme, k + 1)

\* The loop of check_bounds.main from line k on: a malformed line is
\* reported and the loop goes on.
RECURSIVE CheckLoop(_, _)
CheckLoop(log, k) ==
    IF k > Len(log) THEN [checked |-> << >>, all_issues |-> << >>]
    ELSE LET rest == CheckLoop(log, k + 1)
         IN  IF ~ log[k].ok THEN rest
             ELSE [checked |-> << log[k] >> \o rest.checked,
                   all_issues |-> BoxIssues(log[k], 1) \o rest.all_issues]

\* check_bounds.main.
CheckBoundsMain ==
    /\ checked' = CheckLoop(memedb, 1).checked
    /\ all_issues' = CheckLoop(memedb, 1).all_issues
    /\ scanned' = scanned \cup {"check_bounds.main"}
    /\ UNCHANGED << memedb, images, memedb_fixed, memedb_ai_generated,
                    new_template, s_original, template_name, s_pc, s_ret,
                    saves, log0, templates, memes, issues_found, t_result >>
    /\ UNCHANGED << resolverVars, geomVars, fitVars, auditVars >>
    /\ UNCHANGED << renderVars, raceVars >>

\* The reading loop of fix_bounding_boxes.main from line k on.
RECURSIVE FixReadLoop(_, _)
FixReadLoop(log, k) ==
    IF k > Len(log) THEN [memes |-> << >>, issues_found |-> << >>]
    ELSE LET rest == FixReadLoop(log, k + 1)
             a == analyze_meme_boxes(log[k])
         IN  IF ~ log[k].ok THEN rest
             ELSE [memes |-> << log[k] >> \o rest.memes,
                   issues_found |->
                      (IF a.issues # << >> \/ a.overlaps # << >>
                       THEN << a >> ELSE << >>) \o rest.issues_found]

\* A plausible slip: the templates with findings counted, out-of-bounds
\* findings included.
TotalFindings(found) == Len(found)

\* The overlaps counted while the issues are reported.
RECURSIVE TotalOverlaps(_)
TotalOverlaps(found) ==
    IF found = << >> THEN 0
    ELSE Len(Head(found).overlaps) + TotalOverlaps(Tail(found))

\* The templates after the fixing loop.
FixedMemes(ms) ==
    [k \in 1..Len(ms) |->
        IF ms[k].bounding_boxes # << >>
        THEN [ms[k] EXCEPT
                 !.bounding_boxes = fix_overlapping_boxes(@),
                 !.stages = Append(@, "resolver")]
        ELSE ms[k]]

\* fix_bounding_boxes.main: read memedb.jsonl, report, and if any pair
\* overlaps write the fixed templates to memedb_fixed.jsonl.
FixMain ==
    /\ LET r == FixReadLoop(memedb, 1)
           fixed_memes == FixedMemes(r.memes)
       IN  /\ issues_found' = r.issues_found
           /\ IF TotalOverlaps(r.issues_found) = 0
              THEN /\ memes' = r.memes
                   /\ UNCHANGED memedb_fixed
              ELSE /\ memes' = fixed_memes
                   /\ memedb_fixed' = fixed_memes
    /\ memedb' = memedb
    /\ scanned' = scanned \cup {"fix_bounding_boxes.main"}
    /\ UNCHANGED << images, memedb_ai_generated, new_template, s_original,
                    template_name, s_pc, s_ret, saves, log0, templates,
                    all_issues, checked, t_result >>
    /\ UNCHANGED << resolverVars, geomVars, fitVars, auditVars >>
    /\ UNCHANGED << renderVars, raceVars >>

\* A template of the database has an image file when one name lies within
\* the other.
HasImage(meme, files) ==
    \E f \in files :
        IsSubstr(LowerName(meme.name), ImageName(f))
          \/ IsSubstr(ImageName(f), LowerName(meme.name))

\* generate_bounding_boxes.main: load_meme_database raises on a malformed
\* line and the script ends; else every template with an image and a schema
\* gets the boxes the vision service answers, if any, and all templates are
\* written to memedb_ai_generated.jsonl.
GenerateMain ==
    /\ \A k \in 1..Len(memedb) : memedb[k].ok
    /\ \E answer \in VisionAnswers :
          memedb_ai_generated' =
             [k \in 1..Len(memedb) |->
                 LET meme == memedb[k]
                     new_bounding_boxes ==
                         analyze_meme_with_openai(answer, meme.schema)
                 IN  IF HasImage(meme, images) /\ meme.schema # 0
                        /\ new_bounding_boxes # << >>
                     THEN [meme EXCEPT
                              !.bounding_boxes = new_bounding_boxes,
                              !.stages = << "proposal" >>]
                     ELSE meme]
    /\ scanned' = scanned \cup {"generate_bounding_boxes.main"}
    /\ UNCHANGED << memedb, images, memedb_fixed, new_template, s_original,
                    template_name, s_pc, s_ret, saves, log0, templates,
                    all_issues, checked, memes, issues_found, t_result >>
    /\ UNCHANGED << resolverVars, geomVars, fitVars, auditVars >>
    /\ UNCHANGED << renderVars, raceVars >>

\* test_data.test_template_images.
TestTemplateImages ==
    /\ t_result' = IF test_template_images(memedb, images) THEN "true"
                   ELSE "false"
    /\ UNCHANGED << memedb, images, memedb_fixed, memedb_ai_generated,
                    new_template, s_original, template_name, s_pc, s_ret,
                    saves, log0, templates, all_issues, checked, memes,
                    issues_found, scanned >>
    /\ UNCHANGED << resolverVars, geomVars, fitVars, auditVars >>
    /\ UNCHANGED << renderVars, raceVars >>

\* ------------------------------------------------------------- rendering

\* n pixels in model units.
Px(n) == n * Scale

\* v // 2: the quotient rounded down to a whole number.
FloorHalf(v) == (v \div (2 * Scale)) * Scale

\* The field names of a template's boxes, in key order.
FieldNames == << "consequence", "caption" >>

TemplateNames == { "change_my_mind", "uno_draw_25", "drake" }

\* The boxes of the templates that are rendered: boxes as the resolver and
\* the cleaner leave them, fractions of the frame, and boxes in pixels.
RenderPool ==
    { Box(5000, 5000, 4000, 2000),
      Box(2000, 8000, 4000, 3500),
      Box(Px(100), Px(50), Px(201), Px(100)),
      Box(Px(0), Px(0), Px(400), Px(200)) }

ImageSizes == { << 400, 300 >>, << 1000, 800 >> }

\* The three fonts of get_text_positions: Arial at 36, 24 and 18, or the
\* default font for all three.
FontMap(size_name, hasArial) ==
    IF ~ hasArial THEN DefaultFont
    ELSE IF size_name = "large" THEN Arial(36)
    ELSE IF size_name = "medium" THEN Arial(24)
    ELSE Arial(18)

\* The font size name for a box on an image of the given height in pixels.
FontSizeName(box_height, height) ==
    IF 10 * box_height > 3 * Px(height) THEN "large"
    ELSE IF 10 * box_height > 2 * Px(height) THEN "medium"
    ELSE "small"

\* The text colour for a field of a template.
TextColor(name, field) ==
    IF name = "change_my_mind" THEN "black"
    ELSE IF name = "uno_draw_25" /\ field = "consequence" THEN "red"
    ELSE "white"

\* The entry of get_text_positions for one box.
TextPosition(name, field, bbox, height, hasArial) ==
    [ position |-> << bbox.x + FloorHalf(bbox.width),
                      bbox.y + FloorHalf(bbox.height) >>,
      font |-> FontMap(FontSizeName(bbox.height, height), hasArial),
      color |-> TextColor(name, field),
      stroke_color |-> IF TextColor(name, field) = "white" THEN "black"
                       ELSE "white",
      bbox |-> << bbox.x, bbox.y, bbox.width, bbox.height >> ]

\* What create_template_with_boxes draws for one box: the outline and the
\* anchor of the field name.
DrawnBox(bbox) ==
    [ rectangle |-> << bbox.x, bbox.y, bbox.x + bbox.width,
                       bbox.y + bbox.height >>,
      text |-> << bbox.x + FloorHalf(bbox.width),
                  bbox.y + FloorHalf(bbox.height) >> ]

\* No template is rendered in this behaviour.
RenderIdle ==
    /\ r_template = [name |-> "", bounding_boxes |-> << >>]
    /\ img_size = << 0, 0 >>
    /\ r_exists = FALSE
    /\ r_arial = FALSE
    /\ positions = << >>
    /\ drawn = << >>
    /\ rendered = {}

\* A template of up to two boxes and its image.
RenderInit ==
    /\ r_template \in
          { [name |-> n, bounding_boxes |-> bs] :
              n \in TemplateNames,
              bs \in UNION { [1..k -> RenderPool] : k \in 0..2 } }
    /\ img_size \in ImageSizes
    /\ r_exists \in BOOLEAN
    /\ r_arial \in BOOLEAN
    /\ positions = << >>
    /\ drawn = << >>
    /\ rendered = {}

\* get_text_positions(template, width, height).
GetTextPositions ==
    /\ positions' =
          [k \in 1..Len(r_template.bounding_boxes) |->
              TextPosition(r_template.name, FieldNames[k],
                           r_template.bounding_boxes[k], img_size[2],
                           r_arial)]
    /\ rendered' = rendered \cup {"get_text_positions"}
    /\ UNCHANGED << r_template, img_size, r_exists, r_arial, drawn >>
    /\ UNCHANGED << resolverVars, geomVars, fitVars, auditVars, storeVars >>
    /\ UNCHANGED raceVars

\* create_template_with_boxes(template): None without the image file.
CreateTemplateWithBoxes ==
    /\ drawn' =
          IF r_exists
          THEN [k \in 1..Len(r_template.bounding_boxes) |->
                   DrawnBox(r_template.bounding_boxes[k])]
          ELSE << >>
    /\ rendered' = rendered \cup {"create_template_with_boxes"}
    /\ UNCHANGED << r_template, img_size, r_exists, r_arial, positions >>
    /\ UNCHANGED << resolverVars, geomVars, fitVars, auditVars, storeVars >>
    /\ UNCHANGED raceVars

\* ------------------------------------------------------------- two sessions

Sessions == {1, 2}

\* A session outside save_new_template, with no template.
NoSession ==
    [pc |-> "idle", template |-> NoTemplate, template_name |-> << >>,
     ret |-> "none", seen |-> 0]

\* No session is saving in this behaviour.
RaceIdle == session = [p \in Sessions |-> NoSession]

\* The logs without a malformed line.
CleanLogs == { log \in InitLogs : \A k \in 1..Len(log) : log[k].ok }

\* Two sessions about to save templates whose names clean to the same
\* name, on a log every line of which parses.
RaceInit ==
    /\ memedb \in CleanLogs
    /\ images = { memedb[k].name : k \in 1..Len(memedb) }
    /\ memedb_fixed = << >>
    /\ memedb_ai_generated = << >>
    /\ new_template = NoTemplate
    /\ s_original = << >>
    /\ template_name = << >>
    /\ s_pc = "idle"
    /\ s_ret = "none"
    /\ saves = MaxSaves
    /\ log0 = memedb
    /\ ScanFresh
    /\ session \in
          { s \in [Sessions ->
                     { [pc |-> "idle",
                        template |-> Record(n, 2, b, << "proposal" >>),
                        template_name |-> << >>, ret |-> "none",
                        seen |-> 0] :
                         n \in RawNames, b \in TemplateAnswers }] :
              CleanName(s[1].template.name) = CleanName(s[2].template.name) }

\* Session p in save_new_template, lines 76-89: the name cleaned and made
\* unique among the templates load_meme_templates returns now.
SessionSaveCall(p) ==
    /\ session[p].pc = "idle"
    /\ session[p].ret = "none"
    /\ LET name == UniqueName(load_meme_templates(memedb),
                              CleanName(session[p].template.name),
                              CleanName(session[p].template.name), 1)
       IN  session' = [session EXCEPT
                          ![p].template_name = name,
                          ![p].template.name = name,
                          ![p].seen = Len(load_meme_templates(memedb)),
                          ![p].pc = "named"]
    /\ UNCHANGED storeVars
    /\ UNCHANGED << resolverVars, geomVars, fitVars, auditVars, renderVars >>

\* Session p, lines 91-97: image.save under the final name; if it raises,
\* False is returned.
SessionSaveImage(p) ==
    /\ session[p].pc = "named"
    /\ \E written \in BOOLEAN :
          IF written
          THEN /\ images' = images \cup {session[p].template_name}
               /\ session' = [session EXCEPT ![p].pc = "imaged"]
          ELSE /\ session' = [session EXCEPT ![p].pc = "idle",
                                             ![p].ret = "false"]
               /\ UNCHANGED images
    /\ UNCHANGED << memedb, memedb_fixed, memedb_ai_generated, new_template,
                    s_original, template_name, s_pc, s_ret, saves, log0,
                    templates, all_issues, checked, memes, issues_found,
                    scanned, t_result >>
    /\ UNCHANGED << resolverVars, geomVars, fitVars, auditVars, renderVars >>

\* Session p, lines 99-108: the record appended to memedb.jsonl and True
\* returned; if the file cannot be opened, False.
SessionSaveAppend(p) ==
    /\ session[p].pc = "imaged"
    /\ \E opened \in BOOLEAN :
          IF opened
          THEN /\ memedb' = AppendedLog(memedb, session[p].template)
               /\ session' = [session EXCEPT ![p].pc = "idle",
                                             ![p].ret = "true"]
          ELSE /\ session' = [session EXCEPT ![p].pc = "idle",
                                             ![p].ret = "false"]
               /\ UNCHANGED memedb
    /\ UNCHANGED << images, memedb_fixed, memedb_ai_generated, new_template,
                    s_original, template_name, s_pc, s_ret, saves, log0,
                    templates, all_issues, checked, memes, issues_found,
                    scanned, t_result >>
    /\ UNCHANGED << resolverVars, geomVars, fitVars, auditVars, renderVars >>

\* ------------------------------------------------------------- specifications

Init ==
    /\ orig \in Inputs
    /\ heap = orig
    /\ bounding_boxes = [k \in 1..Len(orig) |-> k]
    /\ fixed_boxes = << >>
    /\ box_names = << >>
    /\ overlaps_found = FALSE
    /\ iteration = 0
    /\ i = 0
    /\ j = 0
    /\ pc = "idle"
    /\ original_boxes = << >>
    /\ changed = FALSE
    /\ result = << >>
    /\ calls = 0
    /\ input = << >>
    /\ trace = << >>
    /\ history = {}
    /\ GeomIdle
    /\ FitIdle
    /\ AuditIdle
    /\ StoreIdle
    /\ RenderIdle
    /\ RaceIdle

Next == Call \/ BeginPass \/ PairSkip \/ PairSeparate \/ Return

Spec == Init /\ [][Next]_vars

\* The geometry functions called on two boxes.
GeomStart ==
    /\ ResolverIdle /\ GeomInit /\ FitIdle /\ AuditIdle /\ StoreIdle
    /\ RenderIdle /\ RaceIdle

GeomNext == CallBoxesOverlap \/ CallGetOverlapArea

GeomSpec == GeomStart /\ [][GeomNext]_vars

\* One call of fit_text_to_bbox.
FitStart ==
    /\ ResolverIdle /\ GeomIdle /\ FitInit /\ AuditIdle /\ StoreIdle
    /\ RenderIdle /\ RaceIdle

FitNext == FitCall \/ FitSingleLine \/ FitWrapped \/ FitNextSize \/ FitFallback

FitSpec == FitStart /\ [][FitNext]_vars

\* Two audits of one template.
AuditStart ==
    /\ ResolverIdle /\ GeomIdle /\ FitIdle /\ AuditInit /\ StoreIdle
    /\ RenderIdle /\ RaceIdle

AuditNext == CallAnalyze \/ CallCheckBounds

AuditSpec == AuditStart /\ [][AuditNext]_vars

\* The app saving new templates one after another, and the repair script
\* run in between.
SaveStart ==
    /\ ResolverIdle /\ GeomIdle /\ FitIdle /\ AuditIdle /\ StoreInit
    /\ RenderIdle /\ RaceIdle
    /\ saves = 0

SaveNext ==
    \/ AnalyzeImage
    \/ SaveCall
    \/ SaveImage
    \/ SaveAppend
    \/ FixMain

SaveSpec == SaveStart /\ [][SaveNext]_vars

\* The loader and the scripts reading one log.
ScanStart ==
    /\ ResolverIdle /\ GeomIdle /\ FitIdle /\ AuditIdle /\ StoreInit
    /\ RenderIdle /\ RaceIdle
    /\ saves = MaxSaves

ScanNext ==
    \/ LoadMemeTemplates
    \/ CheckBoundsMain
    \/ FixMain
    \/ GenerateMain
    \/ TestTemplateImages

ScanSpec == ScanStart /\ [][ScanNext]_vars

\* One template through the two render-time functions.
RenderStart ==
    /\ ResolverIdle /\ GeomIdle /\ FitIdle /\ AuditIdle /\ StoreIdle
    /\ RenderInit /\ RaceIdle

RenderNext == GetTextPositions \/ CreateTemplateWithBoxes

RenderSpec == RenderStart /\ [][RenderNext]_vars

\* Two sessions saving at the same time: their steps in any order.
RaceStart ==
    /\ ResolverIdle /\ GeomIdle /\ FitIdle /\ AuditIdle /\ RenderIdle
    /\ RaceInit

RaceNext ==
    \E p \in Sessions :
        \/ SessionSaveCall(p)
        \/ SessionSaveImage(p)
        \/ SessionSaveAppend(p)

RaceSpec == RaceStart /\ [][RaceNext]_vars

\* ------------------------------------------------------------- resolver claims

\* The horizontal and the vertical spans of a and b both intersect in an
\* interval of positive length.
PositiveOverlap(a, b) ==
    /\ Min(Right(a), Right(b)) - Max(Left(a), Left(b)) > 0
    /\ Min(Bottom(a), Bottom(b)) - Max(Top(a), Top(b)) > 0

\* width/2 <= x <= 1 - width/2 and height/2 <= y <= 1 - height/2.
InFrame(b) ==
    /\ b.width <= 2 * b.x
    /\ 2 * b.x <= 2 * Scale - b.width
    /\ b.height <= 2 * b.y
    /\ 2 * b.y <= 2 * Scale - b.height

\* No two boxes of the mapping values bs overlap.
OverlapFree(bs) ==
    \A a, b \in 1..Len(bs) : a < b => ~ PositiveOverlap(bs[a], bs[b])

AllInFrame(bs) == \A a \in 1..Len(bs) : InFrame(bs[a])

\* C1 (as claimed): every box of the mapping fix_overlapping_boxes returns
\* is inside the unit frame, the input boxes being at most 1 wide and high.
C1_ReturnedInFrame ==
    \A r \in history :
        (\A a \in 1..Len(r.input) :
            r.input[a].width <= Scale /\ r.input[a].height <= Scale)
        => AllInFrame(r.output)

\* C2: a call that returns after fewer than max_iterations passes returns a
\* mapping in which no two boxes overlap.
C2_EarlyReturnOverlapFree ==
    \A r \in history : r.passes < max_iterations => OverlapFree(r.output)

\* C2 witness: a call on three boxes that found overlaps in two passes or
\* more, returned before the cap and left no overlap.
C2_Witness ==
    \E r \in history :
        /\ Len(r.input) = 3
        /\ r.passes >= 3
        /\ r.passes < max_iterations
        /\ ~ OverlapFree(r.input)
        /\ OverlapFree(r.output)

\* Number of unordered pairs of the current mapping.
NPairs == (Len(box_names) * (Len(box_names) - 1)) \div 2

\* Pairs of the current pass not yet visited, the current one included.
PairsLeft ==
    LET n == Len(box_names)
    IN  NPairs - (((i - 1) * (2 * n - i)) \div 2 + (j - i - 1))

\* Steps the current call can still take, at most.
Variant ==
    CASE pc = "while" -> (max_iterations - iteration) * (NPairs + 2) + 1
      [] pc = "pair"  -> (max_iterations - iteration) * (NPairs + 2) + 1 + PairsLeft
      [] OTHER        -> 0

\* C3: fix_overlapping_boxes terminates: it never raises, never runs more
\* than max_iterations passes, always visits a pair i < j of the mapping,
\* and every step of a call lowers a measure that stays positive until the
\* call returns.
C3_Terminates ==
    /\ [](pc # "error")
    /\ [](iteration <= max_iterations)
    /\ [](pc \in {"while", "pair"} => Variant > 0)
    /\ [](pc = "pair" => 1 <= i /\ i < j /\ j <= Len(box_names))
    /\ [][(pc \in {"while", "pair"}) => (Variant' < Variant)]_vars
    /\ [](\A r \in history : r.passes <= max_iterations)

\* C3 witness: a call that ran all max_iterations passes and returned with
\* an overlap remaining.
C3_Witness ==
    /\ pc = "done"
    /\ iteration = max_iterations
    /\ Len(result) >= 2
    /\ ~ OverlapFree(Values(result, heap))

\* C4: a call on a mapping that is overlap-free and in-bounds returns the
\* same x, y, width and height for every box; and a second call on the
\* mapping a call returned changes nothing when that mapping is overlap-free.
C4_Idempotent ==
    /\ \A r \in history :
          OverlapFree(r.input) /\ AllInFrame(r.input) => r.output = r.input
    /\ \A r1, r2 \in history :
          r2.input = r1.output /\ OverlapFree(r1.output)
          => r2.output = r1.output

\* C4 witness: a first call moved boxes and returned an overlap-free
\* mapping of two or more boxes, two of them touching, and the second call,
\* on that mapping, returned it unchanged.
C4_Witness ==
    \E r1, r2 \in history :
        /\ r1.call = 1
        /\ r2.call = 2
        /\ r1.output # r1.input
        /\ r2.input = r1.output
        /\ OverlapFree(r2.input)
        /\ AllInFrame(r2.input)
        /\ r2.passes = 1
        /\ r2.output = r2.input

\* C4 witness of the first part alone: an input with two boxes that touch
\* along an edge is returned unchanged.
C4_TouchingWitness ==
    \E r \in history :
        /\ Len(r.input) = 2
        /\ Right(r.input[1]) = Left(r.input[2])
        /\ Top(r.input[1]) = Top(r.input[2])
        /\ AllInFrame(r.input)
        /\ r.output = r.input

\* C5 (as claimed): two boxes with the same center and the same size, after
\* the first pass over the pair, do not overlap, have equal y and different x.
C5_CoincidentSeparated ==
    (   /\ Len(input) = 2
        /\ input[1] = input[2]
        /\ input[1].width > 0 /\ input[1].width <= Scale
        /\ input[1].height > 0 /\ input[1].height <= Scale
        /\ pc = "while"
        /\ iteration = 1)
    => /\ ~ PositiveOverlap(heap[fixed_boxes[1]], heap[fixed_boxes[2]])
       /\ heap[fixed_boxes[1]].y = heap[fixed_boxes[2]].y
       /\ heap[fixed_boxes[1]].x # heap[fixed_boxes[2]].x

Touch(a, b) ==
    \/ Right(a) = Left(b)
    \/ Right(b) = Left(a)
    \/ Bottom(a) = Top(b)
    \/ Bottom(b) = Top(a)

\* C7: boxes_overlap(a, b) is true exactly when the horizontal and the
\* vertical spans of a and b both intersect in an interval of positive
\* length; boxes that only touch are not overlapping.
C7_OverlapIffPositive ==
    g_pc \in {"overlap", "area"}
    => /\ g_overlap = PositiveOverlap(g_box1, g_box2)
       /\ Touch(g_box1, g_box2) => ~ g_overlap

\* C7 witness: boxes_overlap was called on two boxes that share an edge
\* and whose vertical spans properly intersect.
C7_Witness ==
    /\ g_pc = "overlap"
    /\ Right(g_box1) = Left(g_box2)
    /\ Top(g_box1) < Bottom(g_box2)
    /\ Top(g_box2) < Bottom(g_box1)
    /\ ~ g_overlap

\* C8: get_overlap_area(a, b) = get_overlap_area(b, a), and the area is 0
\* when boxes_overlap(a, b) is false.
C8_AreaSymmetric ==
    g_pc = "area"
    => /\ g_area = g_area_swapped
       /\ ~ g_overlap => g_area = 0

\* C8 witness: the area of two overlapping boxes of different widths and
\* heights was computed both ways.
C8_Witness ==
    /\ g_pc = "area"
    /\ g_overlap
    /\ g_area > 0
    /\ g_box1.width # g_box2.width
    /\ g_box1.height # g_box2.height
    /\ g_box1.x # g_box2.x

\* ------------------------------------------------------------- fitter claims

\* The font tried for the candidate at position k of the ladder.
CandFont(k) == TestFont(font_sizes[k], font, arial)

\* The text fits on a single line at candidate k.
SingleFits(k) ==
    /\ TextWidth(text, CandFont(k)) <= bbox_width
    /\ TextHeight(text, CandFont(k)) <= bbox_height

\* The greedy wrap at candidate k is low enough.
WrapFits(k) ==
    LineCount(wrap_text(text, CandFont(k), bbox_width))
        * TextHeight(text, CandFont(k)) <= bbox_height

\* The candidates that pass either test.
Passing == { k \in 1..Len(font_sizes) : SingleFits(k) \/ WrapFits(k) }

\* The passing candidate of the largest size.
LargestPassing ==
    CHOOSE k \in Passing : \A k2 \in Passing : font_sizes[k] >= font_sizes[k2]

\* C9: fit_text_to_bbox returns at the largest candidate size that passes
\* the single-line test (the text unchanged) or the wrapped-height test (the
\* wrapped text); it falls through only when no candidate passes; a text
\* that fits unwrapped at the largest size is returned unwrapped at it.
C9_LargestFittingSize ==
    (f_pc = "done" /\ f_ret # "nofont" /\ f_ret # "none")
    => /\ (Passing = {}) <=> (f_ret = "fallback")
       /\ Passing # {}
          => /\ fitted.font = CandFont(LargestPassing)
             /\ fitted.text =
                  IF SingleFits(LargestPassing) THEN Str(text)
                  ELSE wrap_text(text, CandFont(LargestPassing), bbox_width)
             /\ \A k \in 1..Len(font_sizes) :
                  font_sizes[k] > font_sizes[LargestPassing]
                  => ~ SingleFits(k) /\ ~ WrapFits(k)
       /\ (\E k \in 1..Len(font_sizes) :
              /\ \A k2 \in 1..Len(font_sizes) : font_sizes[k] >= font_sizes[k2]
              /\ SingleFits(k))
          => /\ f_ret = "single"
             /\ fitted.text = Str(text)
             /\ fitted.font = TestFont(24, font, arial)

\* C9 witness: Arial loads, the two largest sizes pass neither test and the
\* call returns a wrapped text of two lines or more at a smaller size.
C9_Witness ==
    /\ f_pc = "done"
    /\ arial
    /\ f_ret = "wrapped"
    /\ size_index >= 3
    /\ Len(fitted.text) >= 2
    /\ fitted.font = Arial(font_sizes[size_index])

\* C9 witness of the unwrapped return at the largest size.
C9_SingleWitness ==
    /\ f_pc = "done"
    /\ arial
    /\ f_ret = "single"
    /\ Len(text) >= 2
    /\ fitted = [text |-> Str(text), font |-> Arial(24)]

\* C10: every line of a greedy wrap that holds two words or more measures
\* at most the box width; only a line of a single word may be wider.
C10_WrappedLinesFit ==
    wrap_font # NoFont
    => \A n \in 1..Len(wrapped) :
          Len(wrapped[n]) >= 2
          => TextWidth(wrapped[n], wrap_font) <= bbox_width

\* C10 witness: a wrap of several lines, one of two words that fits and one
\* of a single word wider than the box.
C10_Witness ==
    /\ wrap_font # NoFont
    /\ Len(wrapped) >= 2
    /\ \E n \in 1..Len(wrapped) :
          Len(wrapped[n]) >= 2 /\ TextWidth(wrapped[n], wrap_font) <= bbox_width
    /\ \E n \in 1..Len(wrapped) :
          Len(wrapped[n]) = 1 /\ TextWidth(wrapped[n], wrap_font) > bbox_width

\* The candidate of the smallest size of the ladder.
SmallestCandidate ==
    CHOOSE k \in 1..Len(font_sizes) :
        \A k2 \in 1..Len(font_sizes) : font_sizes[k] <= font_sizes[k2]

\* C11: when no candidate passes either test, fit_text_to_bbox returns the
\* greedy wrap measured at the smallest candidate size of the ladder,
\* together with the font of that smallest size.
C11_FallbackAtSmallestSize ==
    (f_pc = "done" /\ f_ret = "fallback")
    => /\ Passing = {}
       /\ fitted.font = CandFont(SmallestCandidate)
       /\ fitted.text = wrap_text(text, CandFont(SmallestCandidate), bbox_width)

\* Steps the call has left at most: the entry, one per remaining size, the
\* fallback.
FitVariant ==
    CASE f_pc = "idle" -> Len(font_sizes) + 3
      [] f_pc = "loop" -> Len(font_sizes) + 2 - size_index
      [] OTHER -> 0

\* C12: fit_text_to_bbox terminates with a (text, font) result for every
\* text and every box, a box of width = height = 0 included: the loop
\* position only moves forward through the ladder, so each size is visited
\* at most once; while the call runs a step is always possible and every
\* step brings the return nearer; the call ends in one of its four returns,
\* never in an error.
C12_FitTerminates ==
    /\ [](f_pc = "loop" => size_index \in 1..(Len(font_sizes) + 1))
    /\ [](f_pc # "done" => FitVariant > 0 /\ ENABLED FitNext)
    /\ [][FitVariant' < FitVariant]_fitVars
    /\ [][f_pc = "loop" /\ f_pc' = "loop" => size_index' = size_index + 1]_fitVars
    /\ [](f_pc = "done" /\ f_ret # "none"
          => /\ f_ret \in {"nofont", "single", "wrapped", "fallback"}
             /\ fitted.font \in {font} \cup {Arial(font_sizes[k]) :
                                               k \in 1..Len(font_sizes)}
             /\ Chars(text) = 0 \/ fitted.text # << >>)

\* C12 witness: a caption of several words in a box of width = height = 0
\* went through all seven sizes and came back from the fallback, each word
\* on a line of its own.
C12_Witness ==
    /\ f_pc = "done"
    /\ f_ret = "fallback"
    /\ bbox_width = 0
    /\ bbox_height = 0
    /\ Len(text) >= 2
    /\ size_index = Len(font_sizes) + 1
    /\ Len(fitted.text) = Len(text)

\* ------------------------------------------------------------- auditor claims

ViolatedEdges(b) ==
    (IF Left(b) < 0 THEN 1 ELSE 0) + (IF Right(b) > Scale THEN 1 ELSE 0)
      + (IF Top(b) < 0 THEN 1 ELSE 0) + (IF Bottom(b) > Scale THEN 1 ELSE 0)

\* The positions of the issues of a list that are about box k.
IssuesAbout(issues, k) == { n \in 1..Len(issues) : issues[n].box = k }

\* check_box_bounds alone: one issue for each violated edge, naming it.
CheckBoundsPerEdge ==
    \A r \in 1..Len(bounds_issues) :
        \A k \in 1..Len(meme_data.bounding_boxes) :
            LET b == meme_data.bounding_boxes[k]
                found == bounds_issues[r][k]
                Named(edge) ==
                    Cardinality({ n \in 1..Len(found) : found[n].edge = edge })
            IN  /\ Len(found) = ViolatedEdges(b)
                /\ Named("left") = IF Left(b) < 0 THEN 1 ELSE 0
                /\ Named("right") = IF Right(b) > Scale THEN 1 ELSE 0
                /\ Named("top") = IF Top(b) < 0 THEN 1 ELSE 0
                /\ Named("bottom") = IF Bottom(b) > Scale THEN 1 ELSE 0

\* C14 (as claimed): for each box the auditor, check_box_bounds and
\* analyze_meme_boxes alike, emits exactly one issue per violated edge
\* among left < 0, right > 1, top < 0, bottom > 1, so none for a box that
\* is in bounds.
C14_IssuePerViolatedEdge ==
    /\ CheckBoundsPerEdge
    /\ \A r \in 1..Len(analysis) :
          \A k \in 1..Len(meme_data.bounding_boxes) :
              Cardinality(IssuesAbout(analysis[r].issues, k))
                = ViolatedEdges(meme_data.bounding_boxes[k])

\* The pairs a < b of boxes that boxes_overlap holds for.
OverlappingPairs(boxes) ==
    { p \in (1..Len(boxes)) \X (1..Len(boxes)) :
        p[1] < p[2] /\ boxes_overlap(boxes[p[1]], boxes[p[2]]) }

\* C15: for a template with at least one box, analyze_meme_boxes returns
\* exactly one overlap entry for each unordered pair of boxes for which
\* boxes_overlap is true, carrying the two names, no entry for any other
\* pair, and total_overlaps is the number of those pairs.
C15_OverlapEntryPerPair ==
    \A r \in 1..Len(analysis) :
        LET boxes == meme_data.bounding_boxes
            found == analysis[r].overlaps
            EntriesOf(a, b) ==
                { n \in 1..Len(found) :
                    {found[n].boxes[1], found[n].boxes[2]} = {a, b} }
        IN  Len(boxes) >= 1
            => /\ \A a, b \in 1..Len(boxes) :
                    Cardinality(EntriesOf(a, b))
                      = IF a # b /\ boxes_overlap(boxes[a], boxes[b])
                        THEN 1 ELSE 0
               /\ \A n \in 1..Len(found) :
                    /\ found[n].boxes[1] \in 1..Len(boxes)
                    /\ found[n].boxes[2] \in 1..Len(boxes)
               /\ analysis[r].total_overlaps
                    = Cardinality(OverlappingPairs(boxes))
               /\ Len(found) = Cardinality(OverlappingPairs(boxes))

\* C15 witness: a template of three boxes, two pairs of them overlapping
\* and one not, analysed.
C15_Witness ==
    /\ Len(analysis) >= 1
    /\ Len(meme_data.bounding_boxes) = 3
    /\ Cardinality(OverlappingPairs(meme_data.bounding_boxes)) = 2
    /\ analysis[1].total_overlaps = 2

\* ------------------------------------------------------------- log claims

\* The names of the records of a log.
Names(log) == { log[k].name : k \in { n \in 1..Len(log) : log[n].ok } }

\* base_k.
Suffixed(base, k) == base \o << "_", ToString(k) >>

\* The name a save must append: the cleaned name if it is free, else base_k
\* for the smallest k >= 1 such that base_k is not in the log.
ExpectedName(log, base) ==
    IF base \notin Names(log) THEN base
    ELSE Suffixed(base,
                  CHOOSE k \in 1..(Len(log) + 1) :
                      /\ Suffixed(base, k) \notin Names(log)
                      /\ \A m \in 1..(k - 1) : Suffixed(base, m) \in Names(log))

\* The last save appended the expected name.
AppendedExpectedName ==
    (s_pc = "idle" /\ s_ret = "true")
    => /\ Len(memedb) = Len(log0) + 1
       /\ memedb[Len(memedb)].name = ExpectedName(log0, CleanName(s_original))

\* C16 (as claimed): starting from a log whose records have pairwise
\* distinct names, after any sequence of save_new_template calls run one
\* after another the names in the log are pairwise distinct, and on a
\* collision the appended name is base_k for the smallest k >= 1 such that
\* base_k is not in the log.
C16_NamesStayDistinct ==
    /\ DistinctNames(memedb)
    /\ AppendedExpectedName

\* The same for a log without a malformed line.
NamesStayDistinctInCleanLog ==
    (\A k \in 1..Len(memedb) : memedb[k].ok)
    => DistinctNames(memedb) /\ AppendedExpectedName

\* A save on a log without a malformed line met a collision, passed over
\* the taken base_1 and appended base_2.
CleanLogCollisionReached ==
    /\ \A k \in 1..Len(memedb) : memedb[k].ok
    /\ s_pc = "idle"
    /\ s_ret = "true"
    /\ memedb[Len(memedb)].name = Suffixed(CleanName(s_original), 2)

\* C17: persistence is append-only.  Every step leaves memedb.jsonl as it
\* is or appends one line to it, the lines before unchanged and in order;
\* a save that returned True has appended exactly one record to the log it
\* began with, a save that returned False none; fix_bounding_boxes.main
\* leaves memedb.jsonl as it is and writes only memedb_fixed.jsonl.
C17_AppendOnly ==
    /\ [][\/ memedb' = memedb
          \/ /\ s_pc = "imaged"
             /\ Len(memedb') = Len(memedb) + 1
             /\ SubSeq(memedb', 1, Len(memedb)) = memedb
             /\ memedb'[Len(memedb')].ok
             /\ s_ret' = "true"]_vars
    /\ [](s_ret = "true"
          => /\ Len(memedb) = Len(log0) + 1
             /\ SubSeq(memedb, 1, Len(log0)) = log0
             /\ memedb[Len(memedb)].ok)
    /\ [](s_ret = "false" => memedb = log0)
    /\ [][(memedb_fixed' # memedb_fixed \/ memes' # memes
             \/ issues_found' # issues_found)
          => memedb' = memedb]_vars

\* C17 witness: a save has appended a third line to the log, the next save
\* failed and left the three lines, and the repair script has written its
\* output file.
C17_Witness ==
    /\ s_ret = "false"
    /\ Len(memedb) >= 3
    /\ memedb = log0
    /\ memedb_fixed # << >>
    /\ "fix_bounding_boxes.main" \in scanned

\* The scans that skip a malformed line: the two scripts.
ScriptsSkipBadLines ==
    /\ "check_bounds.main" \in scanned => checked = Records(memedb)
    /\ "fix_bounding_boxes.main" \in scanned
       => /\ Len(memes) = Len(Records(memedb))
          /\ \A k \in 1..Len(memes) : memes[k].name = Records(memedb)[k].name

\* The two scripts have read a log with a malformed line before a record.
ScriptsSkipReached ==
    /\ {"check_bounds.main", "fix_bounding_boxes.main"} \subseteq scanned
    /\ \E a, b \in 1..Len(memedb) : a < b /\ ~ memedb[a].ok /\ memedb[b].ok

\* C18 (as claimed): a malformed line is skipped on its own: each of
\* load_meme_templates, check_bounds.main and fix_bounding_boxes.main still
\* processes every well-formed line after it, so the records loaded are all
\* the well-formed lines.
C18_BadLineSkipped ==
    /\ ScriptsSkipBadLines
    /\ "load_meme_templates" \in scanned => templates = Records(memedb)

\* "resolver" comes after the last "proposal" in the stages of a record.
ResolvedAfterProposal(stages) ==
    \A a \in 1..Len(stages) :
        stages[a] = "proposal"
        => \E b \in (a + 1)..Len(stages) : stages[b] = "resolver"

\* C19 (as claimed): on every path from a box proposal to a persisted
\* record, the boxes pass through the overlap resolver before the record is
\* written: every record written to memedb.jsonl by save_new_template, and
\* every record generate_bounding_boxes.main writes to its output file,
\* holds boxes that went through fix_overlapping_boxes after they were
\* proposed.
C19_ResolverBeforePersist ==
    /\ \A k \in 1..Len(memedb) : ResolvedAfterProposal(memedb[k].stages)
    /\ \A k \in 1..Len(memedb_ai_generated) :
          ResolvedAfterProposal(memedb_ai_generated[k].stages)

\* The output file of generate_bounding_boxes.main alone.
GeneratedResolved ==
    \A k \in 1..Len(memedb_ai_generated) :
        ResolvedAfterProposal(memedb_ai_generated[k].stages)

\* C20: every template record in the log has its image at
\* meme_templates/<name>.jpg, from a log for which this holds on through
\* every save_new_template call: the image is stored under the final name
\* before the record is appended, and a failed image write appends no
\* record; test_template_images finds no image missing in a log it can read.
C20_RecordsHaveImages ==
    /\ \A k \in 1..Len(memedb) : memedb[k].ok => memedb[k].name \in images
    /\ s_pc = "imaged" => template_name \in images
    /\ (\A k \in 1..Len(memedb) : memedb[k].ok)
       => test_template_images(memedb, images)

\* C20 witness: the second save met a collision and appended a record
\* under a suffixed name, whose image is there; the log has no malformed
\* line, so that the image test reads it.
C20_Witness ==
    /\ s_pc = "idle"
    /\ s_ret = "true"
    /\ saves = 2
    /\ Len(memedb) = Len(log0) + 1
    /\ memedb[Len(memedb)].name # CleanName(s_original)
    /\ memedb[Len(memedb)].name \in images
    /\ \A k \in 1..Len(memedb) : memedb[k].ok
    /\ test_template_images(memedb, images)

\* ------------------------------------------------------------- push claims

\* The center-to-center distance of two boxes.
CenterDistance(a, b) == Hypot(b.x - a.x, b.y - a.y)

\* The rounding of the quotients, products and square root of one push adds
\* up to a few units (a unit is 1/Scale of the frame).
PushTolerance == Scale \div 2000

Abs(v) == IF v < 0 THEN 0 - v ELSE v

\* The distance d is rounded to the unit, that is by up to 1/(2d) of
\* itself, and a push by m along the unit vector dx/d, dy/d is off by as
\* much of m; this on top of the few units.
PushSlack(m, d) == PushTolerance + (Abs(m) \div d) + 1

\* The resolver stands before an overlapping pair.
AtOverlappingPair ==
    /\ pc = "pair"
    /\ boxes_overlap(heap[fixed_boxes[box_names[i]]],
                     heap[fixed_boxes[box_names[j]]])

\* C22: when the resolver processes an overlapping pair, the distance of
\* the two centers after the push (before the clamp) is at least their
\* distance before it, also when the centers are further apart than
\* (width_i + width_j)/2 + 0.05 and when they coincide.
C22_PushedApart ==
    AtOverlappingPair =>
        LET box1 == heap[fixed_boxes[box_names[i]]]
            box2 == heap[fixed_boxes[box_names[j]]]
            p == Pushed(box1, box2)
        IN  CenterDistance(p[1], p[2]) + PushTolerance
                >= CenterDistance(box1, box2)

\* The same for the pairs whose centers are no further apart than the
\* minimum separation: these the push does move apart.
PushedApartWhenClose ==
    AtOverlappingPair =>
        LET box1 == heap[fixed_boxes[box_names[i]]]
            box2 == heap[fixed_boxes[box_names[j]]]
            p == Pushed(box1, box2)
        IN  CenterDistance(box1, box2) <= min_separation(box1, box2) =>
                CenterDistance(p[1], p[2]) + PushTolerance
                    >= CenterDistance(box1, box2)

\* C23: for an overlapping pair with distinct centers one step moves the
\* two boxes by (minSep - d)/2 in opposite directions along the line of
\* centers, so that before the clamp the centers are minSep =
\* (width_i + width_j)/2 + 0.05 apart, whatever the heights; the records
\* the step leaves are the clamped images of these.
C23_PushToMinSeparation ==
    [][ (AtOverlappingPair
           /\ CenterDistance(heap[fixed_boxes[box_names[i]]],
                             heap[fixed_boxes[box_names[j]]]) # 0)
        => LET r1 == fixed_boxes[box_names[i]]
               r2 == fixed_boxes[box_names[j]]
               box1 == heap[r1]
               box2 == heap[r2]
               p == Pushed(box1, box2)
               d == CenterDistance(box1, box2)
               m == Div(min_separation(box1, box2) - d, 2)
           IN  /\ heap' = [heap EXCEPT ![r1] = Clamp(p[1]),
                                       ![r2] = Clamp(p[2])]
               \* opposite and equal displacements
               /\ p[1].x - box1.x = box2.x - p[2].x
               /\ p[1].y - box1.y = box2.y - p[2].y
               \* of length |moveDist|
               /\ Abs(CenterDistance(box1, p[1]) - Abs(m)) <= PushSlack(m, d)
               \* along the line of centers
               /\ Abs((p[2].x - box2.x) * (box2.y - box1.y)
                        - (p[2].y - box2.y) * (box2.x - box1.x))
                     <= PushTolerance * d
               \* to the minimum separation
               /\ Abs(CenterDistance(p[1], p[2])
                        - (Div(box1.width + box2.width, 2) + Padding))
                     <= PushSlack(m, d)
               \* whatever the heights
               /\ \A h1, h2 \in {Padding, Scale} :
                     LET q == Pushed([box1 EXCEPT !.height = h1],
                                     [box2 EXCEPT !.height = h2])
                     IN  /\ q[1].x = p[1].x /\ q[1].y = p[1].y
                         /\ q[2].x = p[2].x /\ q[2].y = p[2].y ]_vars

\* A pair with distinct centers has been pushed: it was overlapping, and
\* the two records now stand at the minimum separation.
C23_Witness ==
    /\ pc \in {"pair", "while"}
    /\ Len(trace) = 1
    /\ Len(input) = 2
    /\ boxes_overlap(input[1], input[2])
    /\ CenterDistance(input[1], input[2]) # 0
    /\ << heap[fixed_boxes[1]], heap[fixed_boxes[2]] >> # input
    /\ Abs(CenterDistance(heap[fixed_boxes[1]], heap[fixed_boxes[2]])
             - min_separation(input[1], input[2])) <= PushTolerance

\* ------------------------------------------------------------- limitation

\* Two in-bounds boxes, one above the other on the same vertical line,
\* further apart than the minimum separation and closer than the mean
\* height: narrow and tall.
NarrowTallPair(bs) ==
    /\ Len(bs) = 2
    /\ AllInFrame(bs)
    /\ bs[1].x = bs[2].x
    /\ Abs(bs[2].y - bs[1].y) > min_separation(bs[1], bs[2])
    /\ 2 * Abs(bs[2].y - bs[1].y) < bs[1].height + bs[2].height

\* The two boxes side by side at the left and at the right edge of the
\* frame, their y, width and height kept.
SideBySide(bs) ==
    << [bs[1] EXCEPT !.x = Div(bs[1].width, 2)],
       [bs[2] EXCEPT !.x = Scale - Div(bs[2].width, 2)] >>

\* C25: the documented limitation happens: a call on a narrow and tall pair
\* runs all 20 passes and returns the pair still overlapping, although the
\* two boxes can be placed in bounds without overlap.
C25_LimitationReached ==
    \A r \in history :
        NarrowTallPair(r.input) =>
            /\ r.passes = max_iterations
            /\ Len(r.trace) = max_iterations
            /\ ~ OverlapFree(r.output)
            /\ boxes_overlap(r.output[1], r.output[2])
            /\ AllInFrame(SideBySide(r.input))
            /\ OverlapFree(SideBySide(r.input))
            /\ ~ boxes_overlap(SideBySide(r.input)[1], SideBySide(r.input)[2])

\* A call on a narrow and tall pair has returned.
C25_Witness ==
    /\ pc = "done"
    /\ \E r \in history :
          /\ NarrowTallPair(r.input)
          /\ r.call = 1
          /\ r.passes = max_iterations
          /\ ~ OverlapFree(r.output)

\* ------------------------------------------------------------- frame

\* The references of the pair the resolver stands before.
CurrentPair == { fixed_boxes[box_names[i]], fixed_boxes[box_names[j]] }

\* C27: across a run of fix_overlapping_boxes the keys of the mapping and
\* their order, and the width and height of every box, stay as they are,
\* and only the two boxes of a pair found overlapping change x or y: a box
\* that is never in such a pair keeps its x and y.
C27_ResolverFrame ==
    /\ [][ (pc \in {"while", "pair"}) =>
            (/\ fixed_boxes' = fixed_boxes
             /\ bounding_boxes' = bounding_boxes
             /\ box_names' = box_names
             /\ DOMAIN heap' = DOMAIN heap
             /\ \A r \in DOMAIN heap :
                   /\ heap'[r].width = heap[r].width
                   /\ heap'[r].height = heap[r].height
                   /\ heap'[r] # heap[r] =>
                         /\ pc = "pair"
                         /\ r \in CurrentPair
                         /\ AtOverlappingPair) ]_vars
    /\ [](pc \in {"while", "pair"} =>
             /\ box_names = [k \in 1..Len(fixed_boxes) |-> k]
             /\ fixed_boxes = bounding_boxes
             /\ \A k \in 1..Len(input) :
                   /\ heap[fixed_boxes[k]].width = input[k].width
                   /\ heap[fixed_boxes[k]].height = input[k].height)
    /\ [](\A r \in history :
             /\ Len(r.output) = Len(r.input)
             /\ \A k \in 1..Len(r.input) :
                   /\ r.output[k].width = r.input[k].width
                   /\ r.output[k].height = r.input[k].height)

\* A call on three boxes has returned: two of them were pushed, the third
\* overlapped neither before nor after and has the x and y it came with,
\* while it stands partly outside the frame.
C27_Witness ==
    /\ pc = "done"
    /\ \E r \in history : \E k \in 1..Len(r.input) :
          /\ Len(r.input) = 3
          /\ r.output[k] = r.input[k]
          /\ ~ InFrame(r.input[k])
          /\ \A l \in 1..3 \ {k} :
                /\ r.output[l] # r.input[l]
                /\ ~ boxes_overlap(r.input[k], r.input[l])
                /\ ~ boxes_overlap(r.output[k], r.output[l])

\* ------------------------------------------------------------- in place

RECURSIVE WordsOf(_)
WordsOf(lines) ==
    IF lines = << >> THEN << >> ELSE Head(lines) \o WordsOf(Tail(lines))

\* Every font the fitter can hand to wrap_text.
WrapFonts ==
    { NoFont, DefaultFont }
      \cup { Arial(font_sizes[k]) : k \in 1..Len(font_sizes) }

\* C24: the greedy wrap neither splits, drops, duplicates nor reorders
\* words: the words of the lines wrap_text returns, read line by line, are
\* the words of the text in their order, also when a word wider than the
\* box arrives on an empty or on a non-empty line.
C24_WrapKeepsWords ==
    /\ \A f \in WrapFonts : \A w \in BoxWidths :
          /\ WordsOf(wrap_text(text, f, w)) = text
          /\ \A l \in 1..Len(wrap_text(text, f, w)) :
                wrap_text(text, f, w)[l] # << >>
    /\ f_ret \in {"wrapped", "fallback"} => WordsOf(fitted.text) = text
    /\ (f_pc = "loop" /\ size_index > 1) => WordsOf(wrapped) = text

\* The fitter has wrapped a text whose first word, wider than the box, came
\* on an empty line and whose last word, as wide, came on a line holding
\* the word between them.
C24_Witness ==
    /\ f_pc = "loop"
    /\ size_index > 1
    /\ Len(text) = 3
    /\ TextWidth(<< text[1] >>, wrap_font) > bbox_width
    /\ TextWidth(<< text[2] >>, wrap_font) <= bbox_width
    /\ TextWidth(<< text[3] >>, wrap_font) > bbox_width
    /\ wrapped = << << text[1] >>, << text[2] >>, << text[3] >> >>

\* ------------------------------------------------------------- repair run

\* How many times the resolver went over the boxes of a record.
ResolverRuns(meme) == Len(SelectSeq(meme.stages, LAMBDA st : st = "resolver"))

\* Some template of the log has a pair of boxes that boxes_overlap holds
\* for.
SomeOverlap(log) ==
    \E k \in 1..Len(log) :
        log[k].ok /\ OverlappingPairs(log[k].bounding_boxes) # {}

\* C29: fix_bounding_boxes.main runs the resolver and writes the output
\* file only if some template has an overlapping pair; with none it returns
\* without resolving or writing, even if boxes are out of bounds; and when
\* it runs, every template with a non-empty bounding_boxes goes through
\* the resolver exactly once, the templates without overlap included.
C29_ResolverRunsOnOverlapOnly ==
    /\ "fix_bounding_boxes.main" \notin scanned =>
          memedb_fixed = << >> /\ memes = << >>
    /\ "fix_bounding_boxes.main" \in scanned =>
          LET read == Records(memedb)
          IN  /\ Len(memes) = Len(read)
              /\ IF ~ SomeOverlap(memedb)
                 THEN /\ memedb_fixed = << >>
                      /\ memes = read
                      /\ \A k \in 1..Len(memes) : ResolverRuns(memes[k]) = 0
                 ELSE /\ memedb_fixed = memes
                      /\ \A k \in 1..Len(memes) :
                            /\ ResolverRuns(memes[k]) =
                                 IF read[k].bounding_boxes # << >>
                                 THEN 1 ELSE 0
                            /\ memes[k].bounding_boxes =
                                 fix_overlapping_boxes(read[k].bounding_boxes)
                            /\ memes[k].name = read[k].name

\* main has run on a log of a template with an overlapping pair and a
\* template whose boxes do not overlap: both went through the resolver
\* once and the output file holds them.
C29_Witness ==
    /\ "fix_bounding_boxes.main" \in scanned
    /\ Len(memedb_fixed) = 2
    /\ \E a, b \in 1..2 :
          /\ OverlappingPairs(memedb[a].bounding_boxes) # {}
          /\ OverlappingPairs(memedb[b].bounding_boxes) = {}
          /\ memedb[b].bounding_boxes # << >>
          /\ ResolverRuns(memedb_fixed[a]) = 1
          /\ ResolverRuns(memedb_fixed[b]) = 1

\* main has run on a log whose only findings are boxes out of bounds: no
\* resolver run and no output file.
NoOverlapNoOutputReached ==
    /\ "fix_bounding_boxes.main" \in scanned
    /\ issues_found # << >>
    /\ \E k \in 1..Len(memes) :
          \E b \in 1..Len(memes[k].bounding_boxes) :
              ~ InFrame(memes[k].bounding_boxes[b])
    /\ ~ SomeOverlap(memedb)
    /\ memedb_fixed = << >>

\* ------------------------------------------------------------- cleaning

\* The records generate_bounding_boxes.main gave new boxes to.
Proposed(log) == SelectSeq(log, LAMBDA l : l.ok /\ l.stages = << "proposal" >>)

\* A proposed box after the size limits and the clamp of the center, at the
\* double-check and before the rounding.
AtDoubleCheck(b) ==
    LET width == Max(Scale \div 5, Min(4 * (Scale \div 5), b.width))
        height == Max(Scale \div 20, Min(Scale \div 5, b.height))
    IN  Box(Max(Div(width, 2), Min(Scale - Div(width, 2), b.x)),
            Max(Div(height, 2), Min(Scale - Div(height, 2), b.y)),
            width, height)

\* C28 (as claimed): every box analyze_meme_with_openai keeps has width in
\* [0.2, 0.8] and height in [0.05, 0.2] and is fully in-bounds, only fields
\* of the schema are kept, and the correcting branch is never taken.
C28_CleanedBoxInBounds ==
    /\ \A k \in 1..Len(Proposed(memedb_ai_generated)) :
          LET meme == Proposed(memedb_ai_generated)[k]
          IN  /\ Len(meme.bounding_boxes) <= meme.schema
              /\ \A b \in 1..Len(meme.bounding_boxes) :
                    LET box == meme.bounding_boxes[b]
                    IN  /\ Scale \div 5 <= box.width
                        /\ box.width <= 4 * (Scale \div 5)
                        /\ Scale \div 20 <= box.height
                        /\ box.height <= Scale \div 5
                        /\ InFrame(box)
    /\ \A answer \in VisionAnswers : \A k \in 1..Len(answer) :
          InFrame(AtDoubleCheck(answer[k]))

\* The same without the in-bounds part: the sizes are within their limits,
\* no field outside the schema is kept, the box at the double-check is
\* in-bounds so that the correcting branch is not taken, and the kept box
\* is the rounded one.
CleanedSizesAndBranch ==
    /\ \A k \in 1..Len(Proposed(memedb_ai_generated)) :
          LET meme == Proposed(memedb_ai_generated)[k]
          IN  /\ Len(meme.bounding_boxes) <= meme.schema
              /\ \A b \in 1..Len(meme.bounding_boxes) :
                    LET box == meme.bounding_boxes[b]
                    IN  /\ Scale \div 5 <= box.width
                        /\ box.width <= 4 * (Scale \div 5)
                        /\ Scale \div 20 <= box.height
                        /\ box.height <= Scale \div 5
    /\ \A answer \in VisionAnswers : \A k \in 1..Len(answer) :
          LET c == AtDoubleCheck(answer[k])
          IN  /\ InFrame(c)
              /\ CleanBox(answer[k]) =
                   Box(Round3(c.x), Round3(c.y), Round3(c.width),
                       Round3(c.height))

\* ------------------------------------------------------------- render claims

\* C21 (as claimed): the render-time positioning reads (x, y) as the center
\* of the box, like the resolver, the auditors and the cleaner: the extent
\* drawn is [x - width/2, x + width/2] x [y - height/2, y + height/2] and
\* the text anchor is (x, y) itself.
C21_CenterInterpretation ==
    /\ "get_text_positions" \in rendered =>
          \A k \in 1..Len(positions) :
              positions[k].position =
                 << r_template.bounding_boxes[k].x,
                    r_template.bounding_boxes[k].y >>
    /\ ("create_template_with_boxes" \in rendered /\ r_exists) =>
          \A k \in 1..Len(drawn) :
              LET bbox == r_template.bounding_boxes[k]
              IN  /\ drawn[k].rectangle =
                        << Left(bbox), Top(bbox), Right(bbox), Bottom(bbox) >>
                  /\ drawn[k].text = << bbox.x, bbox.y >>

\* What the render-time functions do: (x, y) is the upper left corner, the
\* extent is [x, x + width] x [y, y + height], and the anchor lies half the
\* width and half the height, rounded down to whole numbers, from (x, y).
RenderReadsCorner ==
    /\ \A k \in 1..Len(positions) :
          LET bbox == r_template.bounding_boxes[k]
          IN  /\ positions[k].position[1] - bbox.x = FloorHalf(bbox.width)
              /\ positions[k].position[2] - bbox.y = FloorHalf(bbox.height)
              /\ positions[k].bbox[1] = bbox.x
              /\ positions[k].bbox[2] = bbox.y
    /\ \A k \in 1..Len(drawn) :
          LET bbox == r_template.bounding_boxes[k]
          IN  /\ drawn[k].rectangle[1] = bbox.x
              /\ drawn[k].rectangle[2] = bbox.y
              /\ drawn[k].rectangle[3] - drawn[k].rectangle[1] = bbox.width
              /\ drawn[k].rectangle[4] - drawn[k].rectangle[2] = bbox.height
              /\ "get_text_positions" \in rendered
                    => drawn[k].text = positions[k].position

\* ------------------------------------------------------------- race claims

\* C30 (as claimed): when two save_new_template calls for the same cleaned
\* name run at the same time on one log, the names of the log stay pairwise
\* distinct in every interleaving of their read, image-write and append
\* steps.
C30_DistinctUnderInterleaving == DistinctNames(memedb)

\* The same for the interleavings in which a session read the log after
\* the other had appended, or in which a session appended nothing: there
\* the names stay distinct.
DistinctWhenSerial ==
    (\/ \E p \in Sessions : session[p].ret # "true"
     \/ session[1].seen # session[2].seen)
    => DistinctNames(memedb)

\* Both sessions read the same log and both appended: two records of one
\* name.
DuplicateNameReached ==
    /\ \A p \in Sessions : session[p].ret = "true"
    /\ session[1].seen = session[2].seen
    /\ session[1].template_name = session[2].template_name
    /\ ~ DistinctNames(memedb)

====
